---- MODULE Spec2Model ----
(***************************************************************************)
(* Verification model of the ai-consultation-mcp daemon: the single-       *)
(* instance lifecycle (lock file, port selection, start-up, shutdown, idle *)
(* timer), the authenticated boundary (REST and event transport) and the  *)
(* proxy's lazy spawn.                                                     *)
(*                                                                         *)
(* A daemon process is a small state machine whose steps are the system    *)
(* calls and await points of its entry point; steps of different processes *)
(* interleave freely, steps of one process follow program order.           *)
(***************************************************************************)
EXTENDS Integers, Sequences, FiniteSets, TLC

(***************************************************************************)
(* Bounds of the model.                                                    *)
(***************************************************************************)
NProcs == 2        \* daemon processes that may be launched
NClients == 2      \* event-transport clients
MaxProbe == 11     \* ports beyond the default that a probe may move to
MaxReq == 3        \* REST requests issued in one run
NConvs == 2        \* conversation ids ever created
MaxMsgs == 3       \* messages per conversation the model follows
MaxTime == 7       \* clock readings 1..MaxTime
MaxRetriesOpt == 3  \* largest maxRetries option passed to withRetry
MaxDocs == 3        \* documents created in one run
MaxBatch == 2       \* inputs of one upload batch
MaxCfg == 1        \* config.maxMessages ranges over 1..MaxCfg
NHolders == 2      \* processes that use one FileLock
MaxTries == 2      \* passes of acquire's loop before its timeout
MaxSocks == 2      \* socket objects a proxy's client creates in one run
MaxOpens == 2      \* times the database file is opened in one run

(***************************************************************************)
(* Program constants.                                                      *)
(***************************************************************************)
DEFAULT_PORT == 3456
maxAttempts == 30
PollIntervalMs == 100
DefaultMaxRetries == 2
DefaultBaseDelay == 1000
MAX_ALLOWED_MESSAGES == 50
STALE_TIMEOUT_MINUTES == 5

Procs == 1..NProcs
Clients == 1..NClients
PrevPid == 0                       \* pid of a daemon of an earlier session
Pids == {PrevPid} \cup Procs
Modes == {"index", "cli", "cliLegacy"}
Signals == {"SIGINT", "SIGTERM"}
NoToken == 0                       \* an absent (undefined) token
ExtPorts == {DEFAULT_PORT}         \* ports an unrelated program may take or free

VARIABLES
  lockFile,          \* content of ~/.ai-consultation-mcp/daemon.lock
  prev,              \* what runs under PrevPid: "dead" or "foreign"
  extBusy,           \* ports bound by unrelated programs
  pc,                \* position of each daemon process
  mode,              \* entry point each daemon process was started through
  port,              \* port probed / chosen by each process
  dbOpen,            \* the process holds the open store
  listening,         \* the process's HTTP server accepts connections
  idleTimer,         \* the process's idle timer is armed
  trig,              \* shutdown trigger received ("none" if none)
  shutLog,           \* shutdown steps executed, in order
  msg,               \* last line the process logged about its outcome
  exitCode,          \* -1 while running
  acqRemoved,        \* acquireLock removed a stale lock file
  firedClients,      \* client count when the idle timer fired (-1: never)
  connectedClients,  \* per process: the client table
  sock,              \* per client: "closed", "connected", "refused"
  peer,              \* per client: the daemon it is connected to (0: none)
  hs,                \* per client: the token its handshake carried
  ppc,               \* proxy position
  attempts,          \* proxy poll attempts
  pPort,             \* port the proxy resolved
  store,             \* persistent state reachable through /api
  events,            \* number of broadcasts emitted by /api handlers
  lastReq,           \* last REST request
  lastStatus,        \* its HTTP status
  reqCount,          \* REST requests issued
  now,               \* wall clock as CURRENT_TIMESTAMP reports it
  maxMessages,       \* config.maxMessages
  conv,              \* conversations table: one row per conversation id
  msgs,              \* messages table: per conversation, rows in rowid order
  consult,           \* the handleConsult call in flight
  last,              \* result of the handler that ran last
  emits,             \* events the handler that ran last broadcast
  cleanupPending,    \* the startup cleanup timer has not fired yet
  retry,             \* the withRetry call in progress
  countCast,         \* per daemon: its last clients:count broadcast
  cfg,               \* the config table, as far as getConfig reads it
  cfgOut,            \* outcome of the config handler that ran last
  rag,               \* documents, chunks and embeddings tables
  up,                \* the upload batch in progress
  fl,                \* a FileLock's lock file and the processes that use it
  mig,               \* the database file initDatabase opens: schema and rows
  dc                 \* a proxy's daemon client: its fields and its sockets

\* files, other programs and the proxy-side client object
fsVars == <<lockFile, prev, extBusy, fl, mig, dc>>
procVars == <<pc, mode, port, dbOpen, listening, idleTimer, trig, shutLog, msg,
              exitCode, acqRemoved, firedClients>>
hubVars == <<connectedClients, sock, peer, hs>>
proxyVars == <<ppc, attempts, pPort>>
apiVars == <<store, events, lastReq, lastStatus, reqCount>>
convVars == <<now, maxMessages, conv, msgs, consult, last, emits>>
extVars == <<cleanupPending, retry, countCast, cfg, cfgOut, rag, up>>
vars == <<fsVars, procVars, hubVars, proxyVars, apiVars, convVars, extVars>>

(***************************************************************************)
(* The lock file.                                                          *)
(***************************************************************************)
NoFile == [kind |-> "none", pid |-> 0, port |-> 0, token |-> 0]
\* the file exists but holds a prefix of the JSON text (possibly empty)
PartialFile == [kind |-> "partial", pid |-> 0, port |-> 0, token |-> 0]
DaemonLock(pid, prt, tok) == [kind |-> "lock", pid |-> pid, port |-> prt, token |-> tok]

\* crypto.randomBytes(32): a fresh value per call; each process calls it once
FreshToken(p) == p

\* readLockFile: null when the file is absent or JSON.parse throws
Null == [kind |-> "null"]
readLockFile(file) ==
  IF file.kind = "lock" THEN file ELSE Null

\* process.kill(pid, 0) succeeds
ProcessExists(pid) ==
  IF pid = PrevPid THEN prev = "foreign"
  ELSE pc[pid] \notin {"idle", "exited", "killed"}

\* the command line of pid contains 'daemon'
isTrulyDaemon(pid) == pid \in Procs

\* mutant: the liveness test inverted
isProcessRunningInverted(pid) == ~ProcessExists(pid) /\ isTrulyDaemon(pid)

isProcessRunning(pid) == ProcessExists(pid) /\ isTrulyDaemon(pid)

\* outcome of isDaemonRunning before its side effect:
\* "none" (no readable lock), "running", "stale"
isDaemonRunning(file) ==
  LET lock == readLockFile(file) IN
  IF lock = Null THEN "none"
  ELSE IF isProcessRunning(lock.pid) THEN "running"
  ELSE "stale"

\* removeLockFile: unlink if present
removeLockFile(file) == NoFile

(***************************************************************************)
(* Ports.                                                                  *)
(***************************************************************************)
PortInUse(q) == q \in extBusy \/ \E p \in Procs : listening[p] /\ port[p] = q
PortAvailable(q) == ~PortInUse(q)

(***************************************************************************)
(* Initial state: no daemon runs; an earlier session may have left a stale *)
(* lock behind.                                                            *)
(***************************************************************************)
InitProcs ==
  /\ pc = [p \in Procs |-> "idle"]
  /\ mode = [p \in Procs |-> "index"]
  /\ port = [p \in Procs |-> 0]
  /\ dbOpen = [p \in Procs |-> FALSE]
  /\ listening = [p \in Procs |-> FALSE]
  /\ idleTimer = [p \in Procs |-> FALSE]
  /\ trig = [p \in Procs |-> "none"]
  /\ shutLog = [p \in Procs |-> <<>>]
  /\ msg = [p \in Procs |-> "none"]
  /\ exitCode = [p \in Procs |-> -1]
  /\ acqRemoved = [p \in Procs |-> FALSE]
  /\ firedClients = [p \in Procs |-> -1]

InitHub ==
  /\ connectedClients = [p \in Procs |-> {}]
  /\ sock = [c \in Clients |-> "closed"]
  /\ peer = [c \in Clients |-> 0]
  /\ hs = [c \in Clients |-> NoToken]

InitProxy ==
  /\ ppc = "idle"
  /\ attempts = 0
  /\ pPort = 0

InitApi ==
  /\ store = [convs |-> {1}, apiKey |-> ""]
  /\ events = 0
  /\ lastReq = [route |-> "none", token |-> NoToken, seq |-> 0]
  /\ lastStatus = 0
  /\ reqCount = 0

\* an absent value (SQL NULL) of a DATETIME column; clock readings start at 1
NoTime == 0
Convs == 1..NConvs

\* no row under this id yet / the row was deleted (ids are uuids, never reused)
NoRow == [st |-> "none", endReason |-> "null", endedAt |-> NoTime, updatedAt |-> NoTime]
Gone == [st |-> "deleted", endReason |-> "null", endedAt |-> NoTime, updatedAt |-> NoTime]

NoConsult == [pc |-> "idle", conv |-> 0, snap |-> 0]
NoResult == [op |-> "none", conv |-> 0, ok |-> FALSE, err |-> "none"]

\* the store is empty and no handler has run
\* a config field that is not given, a config row that does not exist
Absent == -1

\* document ids (randomUUID: never reused), and the absent row; a chunk and
\* its embedding are named by the id of the chunk's document
DocIds == 1..MaxDocs
NoDoc == [title |-> [name |-> "", form |-> "plain"], src |-> "none"]

\* getConfig: the rows read back, defaults for absent rows; JSON.parse of the
\* providers row throws on text that is not JSON (ok = FALSE)
getConfig(c) ==
  [ok |-> c.providers # "bad",
   maxMessages |-> IF c.maxMessages = Absent THEN 5 ELSE c.maxMessages,
   requestTimeout |-> c.requestTimeout,
   apiKey |-> c.apiKey]

\* FileLock: no lock file yet; each user of the lock is a process of its own
Holders == 1..NHolders
NoLockFile == [st |-> "none", by |-> 0]
NoFileLock ==
  [file |-> NoLockFile,
   h |-> [x \in Holders |-> [pc |-> "idle", tries |-> 0, read |-> NoLockFile]]]

\* the database file before new Database(DB_PATH) has opened it
EmptyFile == [documents |-> "none", memories |-> "none", folder |-> FALSE,
              rows |-> {}]
NoDatabase == [st |-> "unopened", file |-> EmptyFile, before |-> EmptyFile,
               opens |-> 0]

\* createDaemonClient: let socket = null; let connecting = null; no socket
\* object exists yet
Socks == 1..MaxSocks
NoClient == [socket |-> 0, connecting |-> 0, made |-> 0, handled |-> {},
             s |-> [x \in Socks |-> "none"]]

\* createDaemonServer: setTimeout(startup cleanup, 1000) is scheduled
InitExt ==
  /\ fl = NoFileLock
  /\ mig = NoDatabase
  /\ dc = NoClient
  /\ cleanupPending = TRUE
  /\ countCast = [p \in Procs |-> [n |-> 0, seq |-> 0]]
  /\ cfg = [maxMessages |-> Absent, requestTimeout |-> Absent, other |-> FALSE,
            providers |-> "absent", apiKey |-> ""]
  /\ cfgOut = [op |-> "none", committed |-> FALSE, replied |-> "none",
               cast |-> FALSE, payload |-> getConfig(cfg)]
  /\ rag = [loaded |-> FALSE, doc |-> [d \in DocIds |-> NoDoc], chunks |-> {},
            embs |-> {}, next |-> 1]
  /\ up = [pc |-> "idle", mode |-> "skip", inputs |-> <<>>, i |-> 1,
           documents |-> [d \in DocIds |-> NoDoc], processed |-> {},
           created |-> {}, cur |-> 0]
  /\ retry = [pc |-> "idle", attempt |-> 0, calls |-> 0, waits |-> <<>>,
              maxRetries |-> 0, baseDelay |-> 0, errs |-> 0,
              err |-> [status |-> 0, respStatus |-> 0, timeoutMsg |-> FALSE,
                       code |-> "none"]]

InitConv ==
  /\ now = 1
  /\ maxMessages = 1
  /\ conv = [c \in Convs |-> NoRow]
  /\ msgs = [c \in Convs |-> <<>>]
  /\ consult = NoConsult
  /\ last = NoResult
  /\ emits = <<>>

Init ==
  /\ lockFile \in {NoFile, DaemonLock(PrevPid, DEFAULT_PORT, NProcs + 1)}
  /\ prev = "dead"
  /\ extBusy \in SUBSET ExtPorts
  /\ InitProcs /\ InitHub /\ InitProxy /\ InitApi /\ InitConv /\ InitExt

(***************************************************************************)
(* Start-up.                                                               *)
(***************************************************************************)
\* the process is launched through one of the entry points
Start(p, m) ==
  /\ pc[p] = "idle"
  /\ pc' = [pc EXCEPT ![p] = "check"]
  /\ mode' = [mode EXCEPT ![p] = m]
  /\ UNCHANGED <<port, dbOpen, listening, idleTimer, trig, shutLog, msg, exitCode,
                 acqRemoved, firedClients>>
  /\ UNCHANGED <<fsVars, hubVars, proxyVars, apiVars, convVars, extVars>>

\* where the entry point goes once no daemon is found running
AfterCheckPc(m) == IF m = "index" THEN "probe" ELSE "acq"

\* process.exit(code) after a log line; the memory of the process is gone
Exit(p, line, code) ==
  /\ pc' = [pc EXCEPT ![p] = "exited"]
  /\ msg' = [msg EXCEPT ![p] = line]
  /\ exitCode' = [exitCode EXCEPT ![p] = code]
  /\ port' = [port EXCEPT ![p] = 0]
  /\ dbOpen' = [dbOpen EXCEPT ![p] = FALSE]
  /\ acqRemoved' = [acqRemoved EXCEPT ![p] = FALSE]

\* main: const existingPort = isDaemonRunning(), up to the liveness test
MainCheck(p) ==
  /\ pc[p] = "check"
  /\ LET r == isDaemonRunning(lockFile) IN
       CASE r = "running" ->
              Exit(p, "Already running", 0)
         [] r = "stale" ->
              /\ pc' = [pc EXCEPT ![p] = "check_rm"]
              /\ UNCHANGED <<msg, exitCode, port, dbOpen, acqRemoved>>
         [] OTHER ->
              /\ pc' = [pc EXCEPT ![p] = AfterCheckPc(mode[p])]
              /\ port' = [port EXCEPT ![p] = DEFAULT_PORT]
              /\ UNCHANGED <<msg, exitCode, dbOpen, acqRemoved>>
  /\ UNCHANGED <<mode, listening, idleTimer, trig, shutLog, firedClients>>
  /\ UNCHANGED <<fsVars, hubVars, proxyVars, apiVars, convVars, extVars>>

\* isDaemonRunning: the stale lock is unlinked
MainRemove(p) ==
  /\ pc[p] = "check_rm"
  /\ lockFile' = removeLockFile(lockFile)
  /\ pc' = [pc EXCEPT ![p] = AfterCheckPc(mode[p])]
  /\ port' = [port EXCEPT ![p] = DEFAULT_PORT]
  /\ UNCHANGED <<mode, dbOpen, listening, idleTimer, trig, shutLog, msg, exitCode,
                 acqRemoved, firedClients>>
  /\ UNCHANGED <<prev, extBusy, fl, mig, dc, hubVars, proxyVars, apiVars, convVars, extVars>>

\* findAvailablePort: one probe; a busy port moves the probe to the next one
findAvailablePort(p) ==
  /\ pc[p] = "probe"
  /\ IF PortAvailable(port[p])
       THEN /\ pc' = [pc EXCEPT ![p] = "acq"]
            /\ UNCHANGED port
       ELSE /\ port[p] < DEFAULT_PORT + MaxProbe
            /\ port' = [port EXCEPT ![p] = port[p] + 1]
            /\ UNCHANGED pc
  /\ UNCHANGED <<mode, dbOpen, listening, idleTimer, trig, shutLog, msg, exitCode,
                 acqRemoved, firedClients>>
  /\ UNCHANGED <<fsVars, hubVars, proxyVars, apiVars, convVars, extVars>>

\* acquireLock: isDaemonRunning(), up to the liveness test
acquireLock(p) ==
  /\ pc[p] = "acq"
  /\ LET r == isDaemonRunning(lockFile) IN
       CASE r = "running" ->
              Exit(p, "Failed to acquire lock", 1)
         [] r = "stale" ->
              /\ pc' = [pc EXCEPT ![p] = "acq_rm"]
              /\ UNCHANGED <<msg, exitCode, port, dbOpen, acqRemoved>>
         [] OTHER ->
              /\ pc' = [pc EXCEPT ![p] = "open"]
              /\ UNCHANGED <<msg, exitCode, port, dbOpen, acqRemoved>>
  /\ UNCHANGED <<mode, listening, idleTimer, trig, shutLog, firedClients>>
  /\ UNCHANGED <<fsVars, hubVars, proxyVars, apiVars, convVars, extVars>>

\* acquireLock: the stale lock is unlinked
AcquireRemove(p) ==
  /\ pc[p] = "acq_rm"
  /\ lockFile' = removeLockFile(lockFile)
  /\ pc' = [pc EXCEPT ![p] = "open"]
  /\ acqRemoved' = [acqRemoved EXCEPT ![p] = TRUE]
  /\ UNCHANGED <<mode, port, dbOpen, listening, idleTimer, trig, shutLog, msg,
                 exitCode, firedClients>>
  /\ UNCHANGED <<prev, extBusy, fl, mig, dc, hubVars, proxyVars, apiVars, convVars, extVars>>

\* what the file holds once writeFileSync has opened it (O_CREAT | O_TRUNC)
FileAfterOpen(p) == PartialFile

\* writeLockFile: fs.writeFileSync opens and truncates the lock file in place
WriteOpen(p) ==
  /\ pc[p] = "open"
  /\ lockFile' = FileAfterOpen(p)
  /\ pc' = [pc EXCEPT ![p] = "write"]
  /\ UNCHANGED <<mode, port, dbOpen, listening, idleTimer, trig, shutLog, msg,
                 exitCode, acqRemoved, firedClients>>
  /\ UNCHANGED <<prev, extBusy, fl, mig, dc, hubVars, proxyVars, apiVars, convVars, extVars>>

\* writeLockFile: the JSON text is written; acquireLock returns the lock
writeLockFile(p) ==
  /\ pc[p] = "write"
  /\ lockFile' = DaemonLock(p, port[p], FreshToken(p))
  /\ pc' = [pc EXCEPT ![p] = "listen"]
  /\ UNCHANGED <<mode, port, dbOpen, listening, idleTimer, trig, shutLog, msg,
                 exitCode, acqRemoved, firedClients>>
  /\ UNCHANGED <<prev, extBusy, fl, mig, dc, hubVars, proxyVars, apiVars, convVars, extVars>>

\* mutant: the timer is armed whatever the client count
resetIdleTimerAlways(n) == TRUE

\* resetIdleTimer: the timer is armed only when no client is connected
resetIdleTimer(n) == n = 0

\* the idle timer exists in the daemon entry point only
TimerAfterReset(p, n) == mode[p] = "index" /\ resetIdleTimer(n)

\* initDatabase(); runMigration(); createDaemonServer(); server.start().
\* The store may fail to open, and the bind may fail with EADDRINUSE.
ServerStart(p) ==
  /\ pc[p] = "listen"
  /\ \/ /\ pc' = [pc EXCEPT ![p] = "fail_rm"]
        /\ msg' = [msg EXCEPT ![p] = "Failed to initialize database"]
        /\ UNCHANGED <<dbOpen, listening, idleTimer>>
     \/ IF PortAvailable(port[p])
          THEN /\ dbOpen' = [dbOpen EXCEPT ![p] = TRUE]
               /\ listening' = [listening EXCEPT ![p] = TRUE]
               /\ pc' = [pc EXCEPT ![p] = "serving"]
               /\ idleTimer' = [idleTimer EXCEPT
                    ![p] = TimerAfterReset(p, Cardinality(connectedClients[p]))]
               /\ UNCHANGED msg
          ELSE /\ pc' = [pc EXCEPT ![p] = "fail_rm"]
               /\ msg' = [msg EXCEPT ![p] = "Failed to start server"]
               \* only the daemon entry point closes the store on this path
               /\ dbOpen' = [dbOpen EXCEPT ![p] = (mode[p] # "index")]
               /\ UNCHANGED <<listening, idleTimer>>
  /\ acqRemoved' = [acqRemoved EXCEPT ![p] = FALSE]
  /\ UNCHANGED <<mode, port, trig, shutLog, exitCode, firedClients>>
  /\ UNCHANGED <<fsVars, hubVars, proxyVars, apiVars, convVars, extVars>>

\* the failure paths of start-up: removeLockFile(); process.exit(1)
FailRemove(p) ==
  /\ pc[p] = "fail_rm"
  /\ lockFile' = removeLockFile(lockFile)
  /\ Exit(p, msg[p], 1)
  /\ UNCHANGED <<mode, listening, idleTimer, trig, shutLog, firedClients>>
  /\ UNCHANGED <<prev, extBusy, fl, mig, dc, hubVars, proxyVars, apiVars, convVars, extVars>>

(***************************************************************************)
(* Shutdown.                                                               *)
(***************************************************************************)
\* io.close(), or the end of the process: every socket of it is disconnected
HubClosed(p) ==
  /\ connectedClients' = [connectedClients EXCEPT ![p] = {}]
  /\ sock' = [c \in Clients |-> IF peer[c] = p THEN "closed" ELSE sock[c]]
  /\ peer' = [c \in Clients |-> IF peer[c] = p THEN 0 ELSE peer[c]]
  /\ hs' = [c \in Clients |-> IF peer[c] = p THEN NoToken ELSE hs[c]]

\* shutdown() of the daemon entry point, up to its first await:
\* the timer is cleared; with a server, server.stop() is called and awaited;
\* without one the function runs on to closeDatabase()
shutdown(p, t) ==
  /\ mode[p] = "index"
  /\ pc[p] \in {"probe", "serving"}
  /\ trig' = [trig EXCEPT ![p] = t]
  /\ idleTimer' = [idleTimer EXCEPT ![p] = FALSE]
  /\ IF pc[p] = "serving"
       THEN /\ pc' = [pc EXCEPT ![p] = "sd_stop"]
            /\ listening' = [listening EXCEPT ![p] = FALSE]
            /\ shutLog' = [shutLog EXCEPT ![p] = <<"stop">>]
            /\ HubClosed(p)
       ELSE /\ pc' = [pc EXCEPT ![p] = "sd_rm"]
            /\ shutLog' = [shutLog EXCEPT ![p] = <<"closeDb">>]
            /\ UNCHANGED <<listening, hubVars>>
  /\ UNCHANGED <<mode, port, dbOpen, msg, exitCode, acqRemoved>>
  /\ UNCHANGED <<fsVars, proxyVars, apiVars, convVars, extVars>>

\* the signal handlers of the CLI entry point: process.exit(0) at once
CliSignal(p, t) ==
  /\ mode[p] \in {"cli", "cliLegacy"}
  /\ pc[p] = "serving"
  /\ trig' = [trig EXCEPT ![p] = t]
  /\ Exit(p, "Received signal", 0)
  /\ shutLog' = [shutLog EXCEPT ![p] = <<"exit0">>]
  /\ listening' = [listening EXCEPT ![p] = FALSE]
  /\ HubClosed(p)
  /\ UNCHANGED <<mode, idleTimer, firedClients>>
  /\ UNCHANGED <<fsVars, proxyVars, apiVars, convVars, extVars>>

\* the CLI entry point installs no handler for uncaught errors: the runtime
\* ends the process with a non-zero code
CliFatal(p) ==
  /\ mode[p] \in {"cli", "cliLegacy"}
  /\ pc[p] = "serving"
  /\ trig' = [trig EXCEPT ![p] = "fatal"]
  /\ Exit(p, "Uncaught exception", 1)
  /\ listening' = [listening EXCEPT ![p] = FALSE]
  /\ HubClosed(p)
  /\ UNCHANGED <<mode, idleTimer, shutLog, firedClients>>
  /\ UNCHANGED <<fsVars, proxyVars, apiVars, convVars, extVars>>

\* process.on('SIGINT' | 'SIGTERM')
Signal(p, s) ==
  \/ shutdown(p, s) /\ UNCHANGED firedClients
  \/ CliSignal(p, s)

\* process.on('uncaughtException' | 'unhandledRejection')
Fatal(p) ==
  \/ shutdown(p, "fatal") /\ UNCHANGED firedClients
  \/ CliFatal(p)

\* the idle timer's callback
IdleTimeout(p) ==
  /\ idleTimer[p]
  /\ firedClients' = [firedClients EXCEPT ![p] = Cardinality(connectedClients[p])]
  /\ shutdown(p, "idle")

\* shutdown(): server.stop() has resolved; closeDatabase()
ShutdownStopped(p) ==
  /\ pc[p] = "sd_stop"
  /\ dbOpen' = [dbOpen EXCEPT ![p] = FALSE]
  /\ shutLog' = [shutLog EXCEPT ![p] = Append(@, "closeDb")]
  /\ pc' = [pc EXCEPT ![p] = "sd_rm"]
  /\ UNCHANGED <<mode, port, listening, idleTimer, trig, msg, exitCode, acqRemoved,
                 firedClients>>
  /\ UNCHANGED <<fsVars, hubVars, proxyVars, apiVars, convVars, extVars>>

\* shutdown(): removeLockFile(); process.exit(0)
ShutdownRemove(p) ==
  /\ pc[p] = "sd_rm"
  /\ lockFile' = removeLockFile(lockFile)
  /\ shutLog' = [shutLog EXCEPT ![p] = @ \o <<"rmLock", "exit0">>]
  /\ Exit(p, "Shutdown complete", 0)
  /\ UNCHANGED <<mode, listening, idleTimer, trig, firedClients>>
  /\ UNCHANGED <<prev, extBusy, fl, mig, dc, hubVars, proxyVars, apiVars, convVars, extVars>>

(***************************************************************************)
(* Environment.                                                            *)
(***************************************************************************)
\* kill -9, or a crash of the host: no handler runs, nothing is reported
Kill(p) ==
  /\ pc[p] \notin {"idle", "exited", "killed"}
  /\ pc' = [pc EXCEPT ![p] = "killed"]
  /\ mode' = [mode EXCEPT ![p] = "index"]
  /\ port' = [port EXCEPT ![p] = 0]
  /\ listening' = [listening EXCEPT ![p] = FALSE]
  /\ idleTimer' = [idleTimer EXCEPT ![p] = FALSE]
  /\ dbOpen' = [dbOpen EXCEPT ![p] = FALSE]
  /\ trig' = [trig EXCEPT ![p] = "none"]
  /\ shutLog' = [shutLog EXCEPT ![p] = <<>>]
  /\ msg' = [msg EXCEPT ![p] = "none"]
  /\ acqRemoved' = [acqRemoved EXCEPT ![p] = FALSE]
  /\ firedClients' = [firedClients EXCEPT ![p] = -1]
  /\ HubClosed(p)
  /\ UNCHANGED exitCode
  /\ UNCHANGED <<fsVars, proxyVars, apiVars, convVars, extVars>>

\* the operating system gives the pid of the earlier daemon to another program,
\* or that program ends
PidReuse ==
  /\ prev' = IF prev = "dead" THEN "foreign" ELSE "dead"
  /\ UNCHANGED <<lockFile, extBusy, fl, mig, dc, procVars, hubVars, proxyVars, apiVars, convVars, extVars>>

\* an unrelated program binds or releases a port
ExtBind(q) ==
  /\ PortAvailable(q)
  /\ extBusy' = extBusy \cup {q}
  /\ UNCHANGED <<lockFile, prev, fl, mig, dc, procVars, hubVars, proxyVars, apiVars, convVars, extVars>>

ExtRelease(q) ==
  /\ q \in extBusy
  /\ extBusy' = extBusy \ {q}
  /\ UNCHANGED <<lockFile, prev, fl, mig, dc, procVars, hubVars, proxyVars, apiVars, convVars, extVars>>

(***************************************************************************)
(* The steps of one daemon process.                                        *)
(***************************************************************************)
StartUp(p) ==
  \/ MainCheck(p)
  \/ MainRemove(p)
  \/ findAvailablePort(p)
  \/ acquireLock(p)
  \/ AcquireRemove(p)
  \/ WriteOpen(p)
  \/ writeLockFile(p)
  \/ ServerStart(p)
  \/ FailRemove(p)

\* a process alone never finds, inside acquireLock, a lock that went stale
\* after its first check: only another daemon could have written one
StartUpAlone(p) ==
  \/ MainCheck(p)
  \/ MainRemove(p)
  \/ findAvailablePort(p)
  \/ acquireLock(p)
  \/ WriteOpen(p)
  \/ writeLockFile(p)
  \/ ServerStart(p)
  \/ FailRemove(p)

ShutDown(p) ==
  \/ \E s \in Signals : Signal(p, s)
  \/ Fatal(p)
  \/ IdleTimeout(p)
  \/ ShutdownStopped(p)
  \/ ShutdownRemove(p)

Environment ==
  \/ PidReuse
  \/ \E q \in ExtPorts : ExtBind(q)
  \/ \E q \in ExtPorts : ExtRelease(q)

(***************************************************************************)
(* Lifecycle: any number of launches racing on one lock file.              *)
(***************************************************************************)
Next ==
  \/ \E p \in Procs, m \in Modes : Start(p, m)
  \/ \E p \in Procs : StartUp(p)
  \/ \E p \in Procs : ShutDown(p)
  \/ \E p \in Procs : Kill(p)
  \/ Environment

Spec == Init /\ [][Next]_vars

(***************************************************************************)
(* Event transport: handshake, client table, idle timer hooks.             *)
(***************************************************************************)
\* tokens a client may present: none, the daemon's, or another one
Tokens(p) == {NoToken, FreshToken(p), NProcs + 1}

\* the token createDaemonServer receives from the entry point
AuthTokenOf(p) == IF mode[p] = "cliLegacy" THEN NoToken ELSE FreshToken(p)

\* io.use: installed only when a token was given; compares the handshake token
ioUse(authToken, tok) == authToken = NoToken \/ tok = authToken

\* main: server.io.on('connection', () => resetIdleTimer())
OnConnection(p, n) == TimerAfterReset(p, n)

\* main: server.io.on('disconnect', ...) -- the server object never emits
\* 'disconnect' (only sockets do), so the timer is left as it is
OnDisconnect(p, n) == idleTimer[p]

\* mutant: the count is taken before the table is updated
CountBroadcastStale(p, table) ==
  [countCast EXCEPT ![p] = [n |-> Cardinality(connectedClients[p]), seq |-> 1 - @.seq]]

\* io.emit('clients:count', connectedClients.size); seq tells one broadcast
\* from the next
CountBroadcast(p, table) ==
  [countCast EXCEPT ![p] = [n |-> Cardinality(table), seq |-> 1 - @.seq]]

\* a client opens a socket to the daemon
Connect(c, p, tok) ==
  /\ sock[c] \in {"closed", "refused"}
  /\ listening[p]
  /\ hs' = [hs EXCEPT ![c] = tok]
  /\ IF ioUse(AuthTokenOf(p), tok)
       THEN /\ connectedClients' = [connectedClients EXCEPT ![p] = @ \cup {c}]
            /\ sock' = [sock EXCEPT ![c] = "connected"]
            /\ peer' = [peer EXCEPT ![c] = p]
            /\ idleTimer' = [idleTimer EXCEPT
                 ![p] = OnConnection(p, Cardinality(connectedClients[p] \cup {c}))]
            /\ countCast' = CountBroadcast(p, connectedClients[p] \cup {c})
       ELSE /\ sock' = [sock EXCEPT ![c] = "refused"]
            /\ UNCHANGED <<connectedClients, peer, idleTimer, countCast>>
  /\ UNCHANGED <<pc, mode, port, dbOpen, listening, trig, shutLog, msg, exitCode,
                 acqRemoved, firedClients>>
  /\ UNCHANGED <<fsVars, proxyVars, apiVars, convVars, cleanupPending, retry>>
  /\ UNCHANGED <<cfg, cfgOut, rag, up>>

\* socket.on('disconnect'): the client leaves
Disconnect(c) ==
  /\ sock[c] = "connected"
  /\ LET p == peer[c] IN
       /\ connectedClients' = [connectedClients EXCEPT ![p] = @ \ {c}]
       /\ idleTimer' = [idleTimer EXCEPT
            ![p] = OnDisconnect(p, Cardinality(connectedClients[p] \ {c}))]
       /\ countCast' = CountBroadcast(p, connectedClients[p] \ {c})
  /\ sock' = [sock EXCEPT ![c] = "closed"]
  /\ peer' = [peer EXCEPT ![c] = 0]
  /\ hs' = [hs EXCEPT ![c] = NoToken]
  /\ UNCHANGED <<pc, mode, port, dbOpen, listening, trig, shutLog, msg, exitCode,
                 acqRemoved, firedClients>>
  /\ UNCHANGED <<fsVars, proxyVars, apiVars, convVars, cleanupPending, retry>>
  /\ UNCHANGED <<cfg, cfgOut, rag, up>>

\* one daemon, launched through any entry point, and its clients
HubNext ==
  \/ \E m \in Modes : Start(1, m)
  \/ StartUpAlone(1)
  \/ ShutDown(1)
  \/ Kill(1)
  \/ \E c \in Clients : \E tok \in Tokens(1) : Connect(c, 1, tok)
  \/ \E c \in Clients : Disconnect(c)
  \/ Environment

HubSpec == Init /\ [][HubNext]_vars

(***************************************************************************)
(* REST boundary.                                                          *)
(***************************************************************************)
Routes == {"health", "deleteChat", "putProvider"}
ConvIds == {1, 2}
ApiKeys == {"", "sk-1"}

\* const token = req.headers['x-daemon-token'] || req.query.token
RequestToken(header, query) == IF header # NoToken THEN header ELSE query

\* app.use('/api', ...): installed only when a token was given
apiAuth(authToken, tok) == authToken = NoToken \/ tok = authToken

\* status of the route handler once the middleware has called next()
HandlerStatus(route, id, key) ==
  CASE route = "deleteChat" -> IF id \in store.convs THEN 200 ELSE 404
    [] route = "putProvider" -> IF key = "" THEN 400 ELSE 200
    [] OTHER -> 200

\* the store after the route handler
HandlerStore(route, id, key) ==
  CASE route = "deleteChat" -> [store EXCEPT !.convs = @ \ {id}]
    [] route = "putProvider" -> IF key = "" THEN store ELSE [store EXCEPT !.apiKey = key]
    [] OTHER -> store

\* broadcasts the route handler emits
HandlerEvents(route, id, key) ==
  IF route # "health" /\ HandlerStatus(route, id, key) = 200 THEN 1 ELSE 0

\* one /api request against a daemon
ApiRequest(p, route, header, query, id, key) ==
  /\ listening[p]
  /\ reqCount < MaxReq
  /\ reqCount' = reqCount + 1
  /\ LET tok == RequestToken(header, query) IN
       /\ lastReq' = [route |-> route, token |-> tok, seq |-> reqCount + 1]
       /\ IF apiAuth(AuthTokenOf(p), tok)
            THEN /\ lastStatus' = HandlerStatus(route, id, key)
                 /\ store' = HandlerStore(route, id, key)
                 /\ events' = events + HandlerEvents(route, id, key)
            ELSE /\ lastStatus' = 401
                 /\ UNCHANGED <<store, events>>
  /\ UNCHANGED <<fsVars, procVars, hubVars, proxyVars, convVars, extVars>>

ApiNext ==
  \/ \E m \in Modes : Start(1, m)
  \/ StartUpAlone(1)
  \/ \E r \in Routes, h \in Tokens(1), q \in Tokens(1), id \in ConvIds, k \in ApiKeys :
        ApiRequest(1, r, h, q, id, k)

ApiSpec == Init /\ [][ApiNext]_vars

(***************************************************************************)
(* Proxy: lazy spawn and polling.                                          *)
(***************************************************************************)
\* the proxy's isProcessRunning: process.kill(pid, 0) only
proxyIsProcessRunning(pid) == ProcessExists(pid)

\* lock && isProcessRunning(lock.pid)
ProxySeesDaemon(file) ==
  LET lock == readLockFile(file) IN
  lock # Null /\ proxyIsProcessRunning(lock.pid)

\* mutant: off by one, the proxy polls once more
GiveUpLate(n) == n > maxAttempts

\* if (attempts >= maxAttempts) reject
GiveUp(n) == n >= maxAttempts

\* ensureDaemonRunning: return the port of a live lock, else startDaemon()
\* spawns daemon/index.js detached
ensureDaemonRunning ==
  /\ ppc = "idle"
  /\ IF ProxySeesDaemon(lockFile)
       THEN /\ ppc' = "resolved"
            /\ pPort' = lockFile.port
            /\ UNCHANGED <<pc, mode>>
       ELSE /\ pc[1] = "idle"
            /\ ppc' = "polling"
            /\ pc' = [pc EXCEPT ![1] = "check"]
            /\ mode' = [mode EXCEPT ![1] = "index"]
            /\ UNCHANGED pPort
  /\ UNCHANGED attempts
  /\ UNCHANGED <<port, dbOpen, listening, idleTimer, trig, shutLog, msg, exitCode,
                 acqRemoved, firedClients>>
  /\ UNCHANGED <<fsVars, hubVars, apiVars, convVars, extVars>>

\* startDaemon: one tick of the 100 ms interval
checkDaemon ==
  /\ ppc = "polling"
  /\ attempts' = attempts + 1
  /\ IF ProxySeesDaemon(lockFile)
       THEN /\ ppc' = "resolved"
            /\ pPort' = lockFile.port
       ELSE /\ ppc' = IF GiveUp(attempts + 1) THEN "rejected" ELSE "polling"
            /\ UNCHANGED pPort
  /\ UNCHANGED <<fsVars, procVars, hubVars, apiVars, convVars, extVars>>

ProxyNext ==
  \/ ensureDaemonRunning
  \/ checkDaemon
  \/ StartUpAlone(1)
  \/ Kill(1)
  \/ Environment

ProxySpec == Init /\ [][ProxyNext]_vars

(***************************************************************************)
(* Port selection of the daemon entry point against a fixed set of busy    *)
(* ports.                                                                  *)
(***************************************************************************)
BusyPrefix(k) == {DEFAULT_PORT + i : i \in 0..(k - 1)}

PortInit ==
  /\ lockFile \in {NoFile, DaemonLock(PrevPid, DEFAULT_PORT, NProcs + 1)}
  /\ prev = "dead"
  /\ extBusy \in {BusyPrefix(k) : k \in 0..MaxProbe}
  /\ InitProcs /\ InitHub /\ InitProxy /\ InitApi /\ InitConv /\ InitExt

PortNext ==
  \/ Start(1, "index")
  \/ StartUpAlone(1)

PortSpec == PortInit /\ [][PortNext]_vars

(***************************************************************************)
(* Lock acquisition alone: launches racing through start-up, processes     *)
(* dying without cleanup.                                                  *)
(***************************************************************************)
LockNext ==
  \/ \E p \in Procs, m \in Modes : Start(p, m)
  \/ \E p \in Procs : StartUp(p)
  \/ \E p \in Procs : Kill(p)
  \/ Environment

LockSpec == Init /\ [][LockNext]_vars

(***************************************************************************)
(* Conversation store and its handlers: socket operations, REST delete,   *)
(* the consult path and the stale sweep, on one serving daemon.            *)
(***************************************************************************)
Roles == {"user", "assistant", "system"}
EndReasons == {"completed", "timeout", "manual"}

RowExists(row) == row.st \in {"active", "archived"}

\* conversationQueries.create: INSERT ... status 'active'; the timestamps
\* default to CURRENT_TIMESTAMP, end_reason and ended_at to NULL
createRow(t) ==
  [st |-> "active", endReason |-> "null", endedAt |-> NoTime, updatedAt |-> t]

\* mutant: the UPDATE leaves ended_at as it was
archiveKeepsEndedAt(row, reason, t) ==
  [row EXCEPT !.st = "archived", !.endReason = reason, !.updatedAt = t]

\* conversationQueries.archive: UPDATE ... WHERE id = @id (any status)
archive(row, reason, t) ==
  [st |-> "archived", endReason |-> reason, endedAt |-> t, updatedAt |-> t]

\* mutant: updated_at is not bumped
touchNothing(row, t) == row

\* conversationQueries.touch
touch(row, t) == [row EXCEPT !.updatedAt = t]

\* archiveConversation(id, endReason = 'manual'): result.changes > 0
archiveConversation(rows, c, reason, t) ==
  IF RowExists(rows[c]) THEN [rows EXCEPT ![c] = archive(rows[c], reason, t)]
  ELSE rows

\* a message row: role and created_at (to the clock's resolution)
Message(role, t) == [role |-> role, at |-> t]

\* stable insertion of a row into a list sorted by created_at
RECURSIVE InsertByCreatedAt(_, _)
InsertByCreatedAt(sorted, m) ==
  IF sorted = <<>> THEN <<m>>
  ELSE IF sorted[Len(sorted)].at <= m.at THEN Append(sorted, m)
  ELSE Append(InsertByCreatedAt(SubSeq(sorted, 1, Len(sorted) - 1), m),
              sorted[Len(sorted)])

RECURSIVE SortByCreatedAt(_)
SortByCreatedAt(rows) ==
  IF rows = <<>> THEN <<>>
  ELSE InsertByCreatedAt(SortByCreatedAt(SubSeq(rows, 1, Len(rows) - 1)),
                         rows[Len(rows)])

\* messageQueries.getByConversation: ORDER BY created_at ASC; rows with equal
\* created_at come out in rowid order
getByConversation(c) == SortByCreatedAt(msgs[c])

\* getConversation(id).messages
getConversation(c) == getByConversation(c)

\* io.emit(type, ...): one event to every socket connected at that moment
Event(type, c, ord) ==
  [type |-> type, conv |-> c, ord |-> ord, to |-> connectedClients[1]]

\* mutant: the hub's handlers run only while some client is connected
HubUpWithClient == pc[1] = "serving" /\ dbOpen[1] /\ connectedClients[1] # {}

\* the daemon serves and its store is open
HubUp == pc[1] = "serving" /\ dbOpen[1]

\* some connected client issues a socket operation
ClientOp == HubUp /\ connectedClients[1] # {}

ConvUnchanged == UNCHANGED <<fsVars, procVars, hubVars, proxyVars, apiVars, extVars>>

\* socket 'conversation:create'
SocketCreate(c) ==
  /\ ClientOp
  /\ conv[c] = NoRow
  /\ \A d \in Convs : d < c => conv[d] # NoRow
  /\ conv' = [conv EXCEPT ![c] = createRow(now)]
  /\ emits' = <<Event("conversation:created", c, 0)>>
  /\ last' = [op |-> "create", conv |-> c, ok |-> TRUE, err |-> "none"]
  /\ UNCHANGED <<now, maxMessages, msgs, consult>>
  /\ ConvUnchanged

\* addMessage: INSERT (fails on the foreign key when the conversation row is
\* absent), then touch
addMessageOk(c) == RowExists(conv[c])
MsgsAfterAdd(c, role) == [msgs EXCEPT ![c] = Append(@, Message(role, now))]
ConvAfterAdd(c) == [conv EXCEPT ![c] = touch(@, now)]

\* mutant: the broadcast does not depend on the append
MessageEventsAlways(success, c, ord) ==
  <<Event("conversation:message", c, ord)>>

\* io.emit('conversation:message') follows addMessage in the same try block:
\* an append that throws skips it
MessageEvents(success, c, ord) ==
  IF success THEN <<Event("conversation:message", c, ord)>> ELSE <<>>

\* socket 'conversation:addMessage'
SocketAddMessage(c, role) ==
  /\ ClientOp
  /\ Len(msgs[c]) < MaxMsgs
  /\ conv[c] # NoRow
  /\ IF addMessageOk(c)
       THEN /\ msgs' = MsgsAfterAdd(c, role)
            /\ conv' = ConvAfterAdd(c)
            /\ last' = [op |-> "addMessage", conv |-> c, ok |-> TRUE, err |-> "none"]
       ELSE /\ last' = [op |-> "addMessage", conv |-> c, ok |-> FALSE, err |-> "error"]
            /\ UNCHANGED <<msgs, conv>>
  /\ emits' = MessageEvents(addMessageOk(c), c, Len(msgs[c]) + 1)
  /\ UNCHANGED <<now, maxMessages, consult>>
  /\ ConvUnchanged

\* events of the socket 'conversation:archive' handler: if (success) io.emit
ArchiveEvents(success, c) ==
  IF success THEN <<Event("conversation:ended", c, 0)>> ELSE <<>>

\* socket 'conversation:archive' (endReason absent means 'manual')
SocketArchive(c, reason) ==
  /\ ClientOp
  /\ conv[c] # NoRow
  /\ conv' = archiveConversation(conv, c, reason, now)
  /\ emits' = ArchiveEvents(RowExists(conv[c]), c)
  /\ last' = [op |-> "archive", conv |-> c, ok |-> RowExists(conv[c]), err |-> "none"]
  /\ UNCHANGED <<now, maxMessages, msgs, consult>>
  /\ ConvUnchanged

\* deleteConversation: DELETE ... WHERE id = ?; messages go by ON DELETE CASCADE
DeleteEffect(c, op) ==
  /\ IF RowExists(conv[c])
       THEN /\ conv' = [conv EXCEPT ![c] = Gone]
            /\ msgs' = [msgs EXCEPT ![c] = <<>>]
            /\ emits' = <<Event("conversation:deleted", c, 0)>>
       ELSE /\ emits' = <<>>
            /\ UNCHANGED <<conv, msgs>>
  /\ last' = [op |-> op, conv |-> c, ok |-> RowExists(conv[c]), err |-> "none"]
  /\ UNCHANGED <<now, maxMessages, consult>>
  /\ ConvUnchanged

\* socket 'conversation:delete'
SocketDelete(c) == ClientOp /\ conv[c] # NoRow /\ DeleteEffect(c, "delete")

\* DELETE /api/chat/:id
RestDelete(c) == HubUp /\ conv[c] # NoRow /\ DeleteEffect(c, "restDelete")

\* handleConsult up to its first await: getConversation, addMessage('user'),
\* emit; the snapshot conv.messages is the list before the append
ConsultBegin(c) ==
  /\ ClientOp
  /\ consult.pc = "idle"
  /\ conv[c] # NoRow
  /\ Len(msgs[c]) < MaxMsgs
  /\ IF RowExists(conv[c])
       THEN /\ msgs' = MsgsAfterAdd(c, "user")
            /\ conv' = ConvAfterAdd(c)
            /\ emits' = MessageEvents(addMessageOk(c), c, Len(msgs[c]) + 1)
            /\ consult' = [pc |-> "rag", conv |-> c, snap |-> Len(getConversation(c))]
            /\ last' = [op |-> "consultBegin", conv |-> c, ok |-> TRUE, err |-> "none"]
       ELSE /\ emits' = <<>>
            /\ last' = [op |-> "consult", conv |-> c, ok |-> FALSE, err |-> "notFound"]
            /\ UNCHANGED <<msgs, conv, consult>>
  /\ UNCHANGED <<now, maxMessages>>
  /\ ConvUnchanged

\* if (conv.messages.length >= config.maxMessages * 2)
LimitReached(snap) == snap >= maxMessages * 2

\* handleConsult after await retrieveContext: the embedding request failed
\* (the catch block answers), or the limit check runs
ConsultAfterRag(ragOk) ==
  /\ HubUp
  /\ consult.pc = "rag"
  /\ LET c == consult.conv IN
       IF ~ragOk
         THEN /\ emits' = <<>>
              /\ last' = [op |-> "consult", conv |-> c, ok |-> FALSE, err |-> "error"]
              /\ consult' = NoConsult
              /\ UNCHANGED conv
         ELSE IF LimitReached(consult.snap)
           THEN /\ conv' = archiveConversation(conv, c, "timeout", now)
                /\ emits' = <<Event("conversation:ended", c, 0)>>
                /\ last' = [op |-> "consult", conv |-> c, ok |-> FALSE, err |-> "limit"]
                /\ consult' = NoConsult
           ELSE /\ emits' = <<>>
                /\ last' = [op |-> "consultRag", conv |-> c, ok |-> TRUE, err |-> "none"]
                /\ consult' = [consult EXCEPT !.pc = "provider"]
                /\ UNCHANGED conv
  /\ UNCHANGED <<now, maxMessages, msgs>>
  /\ ConvUnchanged

\* handleConsult after await callProvider: the call failed, or the answer is
\* appended and broadcast
ConsultAfterProvider(providerOk) ==
  /\ HubUp
  /\ consult.pc = "provider"
  /\ Len(msgs[consult.conv]) < MaxMsgs
  /\ LET c == consult.conv IN
       IF providerOk /\ addMessageOk(c)
         THEN /\ msgs' = MsgsAfterAdd(c, "assistant")
              /\ conv' = ConvAfterAdd(c)
              /\ last' = [op |-> "consult", conv |-> c, ok |-> TRUE, err |-> "none"]
         ELSE /\ last' = [op |-> "consult", conv |-> c, ok |-> FALSE, err |-> "error"]
              /\ UNCHANGED <<msgs, conv>>
  /\ emits' = MessageEvents(providerOk /\ addMessageOk(consult.conv), consult.conv,
                            Len(msgs[consult.conv]) + 1)
  /\ consult' = NoConsult
  /\ UNCHANGED <<now, maxMessages>>
  /\ ConvUnchanged

\* mutant: a conversation exactly five minutes old counts as stale
IsStaleInclusive(row, t) ==
  row.st = "active" /\ row.updatedAt <= t - STALE_TIMEOUT_MINUTES

\* getStaleActive / archiveStale: status = 'active' AND
\* datetime(updated_at) < datetime('now', '-5 minutes')
IsStale(row, t) == row.st = "active" /\ row.updatedAt < t - STALE_TIMEOUT_MINUTES

StaleConversations == {c \in Convs : IsStale(conv[c], now)}

\* the sweep's events, one per conversation of the list read first
RECURSIVE EndedEvents(_)
EndedEvents(S) ==
  IF S = {} THEN <<>>
  ELSE LET c == CHOOSE x \in S : \A y \in S : x <= y
       IN <<Event("conversation:ended", c, 0)>> \o EndedEvents(S \ {c})

\* cleanupInterval callback
StaleSweep ==
  /\ HubUp
  /\ conv' = [c \in Convs |->
                IF c \in StaleConversations THEN archive(conv[c], "timeout", now)
                ELSE conv[c]]
  /\ emits' = EndedEvents(StaleConversations)
  /\ last' = [op |-> "sweep", conv |-> 0, ok |-> StaleConversations # {}, err |-> "none"]
  /\ UNCHANGED <<now, maxMessages, msgs, consult>>
  /\ ConvUnchanged

\* the startup cleanup (setTimeout 1000): archiveStale only
StartupCleanup ==
  /\ HubUp
  /\ cleanupPending
  /\ cleanupPending' = FALSE
  /\ conv' = [c \in Convs |->
                IF c \in StaleConversations THEN archive(conv[c], "timeout", now)
                ELSE conv[c]]
  /\ emits' = <<>>
  /\ last' = [op |-> "startup", conv |-> 0, ok |-> StaleConversations # {}, err |-> "none"]
  /\ UNCHANGED <<now, maxMessages, msgs, consult>>
  /\ UNCHANGED <<fsVars, procVars, hubVars, proxyVars, apiVars>>
  /\ UNCHANGED <<retry, countCast, cfg, cfgOut, rag, up>>

\* time passes
Tick ==
  /\ now < MaxTime
  /\ now' = now + 1
  /\ emits' = <<>>
  /\ last' = NoResult
  /\ UNCHANGED <<maxMessages, conv, msgs, consult>>
  /\ ConvUnchanged

\* the wall clock is set back (clock synchronisation, manual change)
ClockStepBack ==
  /\ now > 1
  /\ now' = now - 1
  /\ emits' = <<>>
  /\ last' = NoResult
  /\ UNCHANGED <<maxMessages, conv, msgs, consult>>
  /\ ConvUnchanged

\* a daemon started by daemon/index.ts that serves with an empty store
ConvInit ==
  /\ lockFile = DaemonLock(1, DEFAULT_PORT, FreshToken(1))
  /\ prev = "dead"
  /\ extBusy = {}
  /\ pc = [p \in Procs |-> IF p = 1 THEN "serving" ELSE "idle"]
  /\ mode = [p \in Procs |-> "index"]
  /\ port = [p \in Procs |-> IF p = 1 THEN DEFAULT_PORT ELSE 0]
  /\ dbOpen = [p \in Procs |-> p = 1]
  /\ listening = [p \in Procs |-> p = 1]
  /\ idleTimer = [p \in Procs |-> p = 1]
  /\ trig = [p \in Procs |-> "none"]
  /\ shutLog = [p \in Procs |-> <<>>]
  /\ msg = [p \in Procs |-> "none"]
  /\ exitCode = [p \in Procs |-> -1]
  /\ acqRemoved = [p \in Procs |-> FALSE]
  /\ firedClients = [p \in Procs |-> -1]
  /\ InitHub /\ InitProxy /\ InitApi /\ InitExt
  /\ now = 1
  /\ maxMessages \in 1..MaxCfg
  /\ conv = [c \in Convs |-> NoRow]
  /\ msgs = [c \in Convs |-> <<>>]
  /\ consult = NoConsult
  /\ last = NoResult
  /\ emits = <<>>

\* the hub's handlers on one conversation under client operations (handlers
\* of different conversations share no state)
ConvNext ==
  \/ \E c \in Clients : Connect(c, 1, FreshToken(1))
  \/ \E c \in Clients : Disconnect(c)
  \/ SocketCreate(1)
  \/ \E r \in Roles : SocketAddMessage(1, r)
  \/ \E r \in EndReasons : SocketArchive(1, r)
  \/ SocketDelete(1)
  \/ RestDelete(1)
  \/ ConsultBegin(1)
  \/ \E ok \in BOOLEAN : ConsultAfterRag(ok)
  \/ \E ok \in BOOLEAN : ConsultAfterProvider(ok)

ConvSpec == ConvInit /\ [][ConvNext]_vars

\* POST /api/consult: the body is checked, the provider is called with the
\* request's own messages and the answer is returned; the handler reads the
\* config and the RAG index and calls neither the conversation store nor
\* io.emit, so its awaits interleave with nothing it shares
RestConsult(message, ragOk, configured, providerOk) ==
  /\ HubUp
  /\ consult.pc = "idle"
  /\ emits' = <<>>
  /\ last' = [op |-> "restConsult", conv |-> 0,
              ok |-> message /\ ragOk /\ configured /\ providerOk,
              err |-> IF ~message \/ (ragOk /\ ~configured) THEN "badRequest"
                      ELSE IF ragOk /\ providerOk THEN "none" ELSE "error"]
  /\ UNCHANGED <<now, maxMessages, conv, msgs, consult>>
  /\ ConvUnchanged

\* the two consultation paths side by side on one conversation
PathsNext ==
  \/ Connect(1, 1, FreshToken(1))
  \/ SocketCreate(1)
  \/ ConsultBegin(1)
  \/ \E ok \in BOOLEAN : ConsultAfterRag(ok)
  \/ \E ok \in BOOLEAN : ConsultAfterProvider(ok)
  \/ \E message, ragOk, configured, providerOk \in BOOLEAN :
       RestConsult(message, ragOk, configured, providerOk)
  \/ Tick

PathsSpec == ConvInit /\ [][PathsNext]_vars

\* a consultation whose requesting client may leave while the handler awaits
\* (room is kept for the answer of every consultation that starts)
DiscNext ==
  \/ \E c \in Clients : Connect(c, 1, FreshToken(1))
  \/ \E c \in Clients : Disconnect(c)
  \/ SocketCreate(1)
  \/ (Len(msgs[1]) + 1 < MaxMsgs /\ ConsultBegin(1))
  \/ \E ok \in BOOLEAN : ConsultAfterRag(ok)
  \/ \E ok \in BOOLEAN : ConsultAfterProvider(ok)
  \/ Tick

\* the promises handleConsult awaits settle
DiscSpec ==
  /\ ConvInit
  /\ [][DiscNext]_vars
  /\ WF_vars(\E ok \in BOOLEAN : ConsultAfterRag(ok))
  /\ WF_vars(\E ok \in BOOLEAN : ConsultAfterProvider(ok))

\* appends to one conversation under the wall clock
ClockNext ==
  \/ Connect(1, 1, FreshToken(1))
  \/ SocketCreate(1)
  \/ SocketAddMessage(1, "user")
  \/ Tick
  \/ ClockStepBack

ClockSpec == ConvInit /\ [][ClockNext]_vars

\* conversations created and archived under the clock, and the sweep
SweepNext ==
  \/ Connect(1, 1, FreshToken(1))
  \/ \E c \in Convs : SocketCreate(c)
  \/ \E c \in Convs, r \in EndReasons : SocketArchive(c, r)
  \/ StaleSweep
  \/ Tick

SweepSpec == ConvInit /\ [][SweepNext]_vars

\* the store an earlier run of the daemon left behind: conversations it
\* created and never ended
PriorStores ==
  {f \in [Convs -> {NoRow, createRow(1)}] :
     \A c, d \in Convs : (d < c /\ f[c] # NoRow) => f[d] # NoRow}

\* a daemon that starts over the store of an earlier run
BootInit ==
  /\ lockFile = DaemonLock(1, DEFAULT_PORT, FreshToken(1))
  /\ prev = "dead"
  /\ extBusy = {}
  /\ pc = [p \in Procs |-> IF p = 1 THEN "serving" ELSE "idle"]
  /\ mode = [p \in Procs |-> "index"]
  /\ port = [p \in Procs |-> IF p = 1 THEN DEFAULT_PORT ELSE 0]
  /\ dbOpen = [p \in Procs |-> p = 1]
  /\ listening = [p \in Procs |-> p = 1]
  /\ idleTimer = [p \in Procs |-> p = 1]
  /\ trig = [p \in Procs |-> "none"]
  /\ shutLog = [p \in Procs |-> <<>>]
  /\ msg = [p \in Procs |-> "none"]
  /\ exitCode = [p \in Procs |-> -1]
  /\ acqRemoved = [p \in Procs |-> FALSE]
  /\ firedClients = [p \in Procs |-> -1]
  /\ InitHub /\ InitProxy /\ InitApi /\ InitExt
  /\ now \in 1..MaxTime
  /\ maxMessages = 1
  /\ conv \in PriorStores
  /\ msgs = [c \in Convs |-> <<>>]
  /\ consult = NoConsult
  /\ last = NoResult
  /\ emits = <<>>

\* both sweeps of a daemon that starts over an earlier store
BootNext ==
  \/ Connect(1, 1, FreshToken(1))
  \/ \E c \in Convs : SocketCreate(c)
  \/ StartupCleanup
  \/ StaleSweep
  \/ Tick

BootSpec == BootInit /\ [][BootNext]_vars

(***************************************************************************)
(* withRetry.                                                              *)
(***************************************************************************)
\* an error is modelled by what retryCondition reads of it; status 0 and
\* respStatus 0 stand for an absent field
\* error?.status || error?.response?.status
statusOf(e) == IF e.status # 0 THEN e.status ELSE e.respStatus

\* mutant: the upper end of the 5xx range is not tested
retryConditionOpenRange(e) ==
  \/ statusOf(e) = 429
  \/ statusOf(e) >= 500
  \/ e.timeoutMsg
  \/ e.code = "ETIMEDOUT"

\* the default retryCondition
retryCondition(e) ==
  \/ statusOf(e) = 429
  \/ (statusOf(e) >= 500 /\ statusOf(e) < 600)
  \/ e.timeoutMsg
  \/ e.code = "ETIMEDOUT"

\* mutant: the delay does not grow
backoffConstant(baseDelay, attempt) == baseDelay

\* baseDelay * Math.pow(2, attempt)
backoff(baseDelay, attempt) == baseDelay * 2^attempt

\* withRetry(operation, {maxRetries, baseDelay}): the loop enters attempt 0
\* and calls the operation
RetryStart(mr, bd) ==
  /\ retry.pc \in {"idle", "returned", "thrown"}
  /\ retry' = [pc |-> "calling", attempt |-> 0, calls |-> 1, waits |-> <<>>,
               maxRetries |-> mr, baseDelay |-> bd, errs |-> 0,
               err |-> [status |-> 0, respStatus |-> 0, timeoutMsg |-> FALSE,
                        code |-> "none"]]
  /\ UNCHANGED <<fsVars, procVars, hubVars, proxyVars, apiVars, convVars>>
  /\ UNCHANGED <<cleanupPending, countCast, cfg, cfgOut, rag, up>>

\* return await operation()
OperationResolves ==
  /\ retry.pc = "calling"
  /\ retry' = [retry EXCEPT !.pc = "returned"]
  /\ UNCHANGED <<fsVars, procVars, hubVars, proxyVars, apiVars, convVars>>
  /\ UNCHANGED <<cleanupPending, countCast, cfg, cfgOut, rag, up>>

\* catch (error): wait and continue, or rethrow
OperationRejects(e) ==
  /\ retry.pc = "calling"
  /\ retry' =
       IF retry.attempt < retry.maxRetries /\ retryCondition(e)
         THEN [retry EXCEPT !.pc = "waiting", !.err = e, !.errs = @ + 1,
                            !.waits = Append(@, backoff(retry.baseDelay, retry.attempt))]
         ELSE [retry EXCEPT !.pc = "thrown", !.err = e, !.errs = @ + 1]
  /\ UNCHANGED <<fsVars, procVars, hubVars, proxyVars, apiVars, convVars>>
  /\ UNCHANGED <<cleanupPending, countCast, cfg, cfgOut, rag, up>>

\* the setTimeout promise resolves; continue: attempt++ and the loop test
DelayElapses ==
  /\ retry.pc = "waiting"
  /\ retry' =
       IF retry.attempt + 1 <= retry.maxRetries
         THEN [retry EXCEPT !.pc = "calling", !.attempt = @ + 1, !.calls = @ + 1]
         ELSE [retry EXCEPT !.pc = "thrown", !.attempt = @ + 1]
  /\ UNCHANGED <<fsVars, procVars, hubVars, proxyVars, apiVars, convVars>>
  /\ UNCHANGED <<cleanupPending, countCast, cfg, cfgOut, rag, up>>

\* calls of withRetry with the default options and with given ones
RetryNext ==
  \/ \E mr \in {DefaultMaxRetries} \cup (0..MaxRetriesOpt),
        bd \in {DefaultBaseDelay, 1} : RetryStart(mr, bd)
  \/ OperationResolves
  \/ \E e \in [status : {0, 400, 429, 500, 505, 599, 600}, respStatus : {0, 503},
                timeoutMsg : BOOLEAN, code : {"none", "ETIMEDOUT"}] :
        OperationRejects(e)
  \/ DelayElapses

\* the operation settles and timers fire
RetrySpec == Init /\ [][RetryNext]_vars /\ WF_vars(RetryNext)

(***************************************************************************)
(* Configuration: REST and socket writes, the config:updated broadcast.    *)
(***************************************************************************)
\* parseConfigPatch(...).success: strict object, ranges, at least one key
parseConfigPatch(body) ==
  /\ ~body.extra
  /\ body.maxMessages = Absent \/ body.maxMessages \in 1..MAX_ALLOWED_MESSAGES
  /\ body.requestTimeout = Absent \/ body.requestTimeout \in 30000..600000
  /\ ~(body.maxMessages = Absent /\ body.requestTimeout = Absent)

\* updateConfig: one upsert per known key that is given; other keys are ignored
updateConfig(c, updates) ==
  [c EXCEPT
     !.maxMessages = IF updates.maxMessages = Absent THEN @ ELSE updates.maxMessages,
     !.requestTimeout = IF updates.requestTimeout = Absent THEN @
                        ELSE updates.requestTimeout]

\* setConfigValue: an upsert of whatever key and value the client sent
setConfigValue(c, key, num, json) ==
  CASE key = "maxMessages" -> [c EXCEPT !.maxMessages = num]
    [] key = "requestTimeout" -> [c EXCEPT !.requestTimeout = num]
    [] key = "providers" -> [c EXCEPT !.providers = IF json THEN "ok" ELSE "bad",
                                      !.apiKey = ""]
    [] OTHER -> [c EXCEPT !.other = TRUE]

\* the body of a config handler: reject, or write, read the config back and
\* broadcast it; an exception after the write is caught and reported
ConfigHandler(op, valid, c2) ==
  /\ HubUp
  /\ cleanupPending' = cleanupPending
  /\ cfg' = IF valid THEN c2 ELSE cfg
  /\ cfgOut' = [op |-> op, committed |-> valid,
                replied |-> IF ~valid THEN "rejected"
                            ELSE IF getConfig(c2).ok THEN "ok" ELSE "failed",
                cast |-> valid /\ getConfig(c2).ok,
                payload |-> getConfig(IF valid THEN c2 ELSE cfg)]
  /\ UNCHANGED <<fsVars, procVars, hubVars, proxyVars, apiVars, convVars>>
  /\ UNCHANGED <<retry, countCast, rag, up>>

\* PATCH /api/config
RestPatchConfig(body) ==
  ConfigHandler("patch", parseConfigPatch(body), updateConfig(cfg, body))

\* socket 'config:update'
SocketConfigUpdate(updates) ==
  /\ ClientOp
  /\ ConfigHandler("update", TRUE, updateConfig(cfg, updates))

\* socket 'config:setValue'
SocketSetValue(key, num, json) ==
  /\ ClientOp
  /\ ConfigHandler("setValue", TRUE, setConfigValue(cfg, key, num, json))

\* PUT /api/providers/:id
RestPutProvider(key) ==
  ConfigHandler("putProvider", key # "" /\ getConfig(cfg).ok,
                [cfg EXCEPT !.providers = "ok", !.apiKey = key])

\* the config writes of clients, over the payloads a client may send
CfgNext ==
  LET ConfigBodies ==
        [maxMessages : {Absent, 0, 1, MAX_ALLOWED_MESSAGES, MAX_ALLOWED_MESSAGES + 1},
         requestTimeout : {Absent, 29999, 30000, 600000, 600001},
         extra : BOOLEAN]
  IN
  \/ Connect(1, 1, FreshToken(1))
  \/ \E body \in ConfigBodies : RestPatchConfig(body)
  \/ \E updates \in ConfigBodies : SocketConfigUpdate(updates)
  \/ \E key \in {"maxMessages", "requestTimeout", "providers", "theme"},
        num \in {0, 1, MAX_ALLOWED_MESSAGES + 1}, json \in BOOLEAN :
        SocketSetValue(key, num, json)
  \/ \E key \in ApiKeys : RestPutProvider(key)

CfgSpec == ConvInit /\ [][CfgNext]_vars

\* socket 'provider:consult' when getConfig() throws: handleConsult reads the
\* config before its try block, so the promise rejects, the listener's await
\* throws and callback is never called
ConsultConfigThrows(c) ==
  /\ ClientOp
  /\ consult.pc = "idle"
  /\ ~getConfig(cfg).ok
  /\ consult' = [pc |-> "rejected", conv |-> c, snap |-> 0]
  /\ emits' = <<>>
  /\ last' = [op |-> "consult", conv |-> c, ok |-> FALSE, err |-> "unanswered"]
  /\ UNCHANGED <<now, maxMessages, conv, msgs>>
  /\ ConvUnchanged

\* process.on('unhandledRejection'): shutdown()
UnhandledRejection ==
  /\ consult.pc = "rejected"
  /\ shutdown(1, "fatal")
  /\ UNCHANGED firedClients

\* the hub's request/response operations under client requests
AckNext ==
  \/ \E c \in Clients : Connect(c, 1, FreshToken(1))
  \/ SocketCreate(1)
  \/ \E r \in Roles : SocketAddMessage(1, r)
  \/ \E r \in EndReasons : SocketArchive(1, r)
  \/ SocketDelete(1)
  \/ \E json \in BOOLEAN : SocketSetValue("providers", 0, json)
  \/ (getConfig(cfg).ok /\ ConsultBegin(1))
  \/ ConsultConfigThrows(1)
  \/ \E ok \in BOOLEAN : ConsultAfterRag(ok)
  \/ \E ok \in BOOLEAN : ConsultAfterProvider(ok)
  \/ UnhandledRejection

AckSpec == ConvInit /\ [][AckNext]_vars

(***************************************************************************)
(* FileLock (utils/lock.ts): a lock file created with the 'wx' flag.       *)
(***************************************************************************)
\* what leaves the other variables alone in a FileLock step
FlUnchanged ==
  UNCHANGED <<lockFile, prev, extBusy, mig, dc, procVars, hubVars, proxyVars,
              apiVars, convVars, extVars>>

\* processExists(pid): process.kill(pid, 0) answers for a live process
processExists(pid) == pid \in Holders /\ fl.h[pid].pc # "dead"

\* the content read is no pid (NaN), or the pid of no live process
IsStaleLock(content) ==
  content.st = "empty" \/ (content.st = "pid" /\ ~processExists(content.by))

\* acquire is called: const start = Date.now()
AcquireStart(x) ==
  /\ fl.h[x].pc = "idle"
  /\ fl' = [fl EXCEPT !.h[x] = [pc |-> "try", tries |-> 0, read |-> NoLockFile]]
  /\ FlUnchanged

\* writeFile(lockPath, pid, {flag: 'wx'}), its open: O_CREAT | O_EXCL creates
\* the file empty, or fails with EEXIST; past the timeout acquire returns false
AcquireOpen(x) ==
  /\ fl.h[x].pc = "try"
  /\ IF fl.h[x].tries >= MaxTries
       THEN fl' = [fl EXCEPT !.h[x].pc = "failed"]
     ELSE IF fl.file.st = "none"
       THEN fl' = [fl EXCEPT !.file = [st |-> "empty", by |-> x],
                             !.h[x].pc = "write"]
     ELSE fl' = [fl EXCEPT !.h[x].pc = "read"]
  /\ FlUnchanged

\* writeFile, its write and close: the pid goes into the file this call
\* created (into its unlinked inode when the name is gone); return true
AcquireWrite(x) ==
  /\ fl.h[x].pc = "write"
  /\ fl' = [fl EXCEPT !.file = IF @ = [st |-> "empty", by |-> x]
                                 THEN [st |-> "pid", by |-> x] ELSE @,
                      !.h[x].pc = "held"]
  /\ FlUnchanged

\* readFile(lockPath): the content, or ENOENT (ignored)
AcquireRead(x) ==
  /\ fl.h[x].pc = "read"
  /\ fl' = [fl EXCEPT !.h[x].read = fl.file, !.h[x].pc = "decide"]
  /\ FlUnchanged

\* after the read: a stale lock is removed with release(), which unlinks
\* whatever file has the name now; then sleep(interval) and the next pass
AcquireDecide(x) ==
  /\ fl.h[x].pc = "decide"
  /\ fl' = [fl EXCEPT !.file = IF IsStaleLock(fl.h[x].read) THEN NoLockFile ELSE @,
                      !.h[x].pc = "try",
                      !.h[x].tries = @ + 1]
  /\ FlUnchanged

\* release(): if (existsSync) unlinkSync
Release(x) ==
  /\ fl.h[x].pc = "held"
  /\ fl' = [fl EXCEPT !.file = NoLockFile, !.h[x].pc = "idle"]
  /\ FlUnchanged

\* the process holding the lock dies without releasing it
HolderDies(x) ==
  /\ fl.h[x].pc = "held"
  /\ fl' = [fl EXCEPT !.h[x].pc = "dead"]
  /\ FlUnchanged

FlNext ==
  \E x \in Holders :
    \/ AcquireStart(x)
    \/ AcquireOpen(x)
    \/ AcquireWrite(x)
    \/ AcquireRead(x)
    \/ AcquireDecide(x)
    \/ Release(x)
    \/ HolderDies(x)

FlSpec == Init /\ [][FlNext]_vars

(***************************************************************************)
(* Opening the database file: initDatabase and its two migrations.  A file *)
(* is its documents and memories tables ("none": no such table, "legacy":  *)
(* the CHECK still lists 'repo_scan', "current"), whether documents has    *)
(* the folder column, and the documents rows (source type, folder set).    *)
(***************************************************************************)
DocRows == [src : {"upload", "repo_scan"}, folder : BOOLEAN]

\* the files an earlier run, of this or an older version, may have left
DatabaseFiles ==
  {f \in [documents : {"none", "legacy", "current"},
          memories : {"none", "legacy", "current"},
          folder : BOOLEAN, rows : SUBSET DocRows] :
     /\ f.documents = "none" => (f.rows = {} /\ ~f.folder)
     /\ \A r \in f.rows : /\ r.src = "repo_scan" => f.documents = "legacy"
                          /\ r.folder => f.folder}

\* tableSqlIncludesRepoScan
tableSqlIncludesRepoScan(table) == table = "legacy"

\* runRepoScanSchemaMigration: nothing to do, or the transaction that deletes
\* the repo_scan rows and rebuilds both tables (documents_new has no folder
\* column); a statement on a missing table throws and the transaction rolls
\* back
repoScanMigration(f) ==
  IF ~tableSqlIncludesRepoScan(f.documents) /\ ~tableSqlIncludesRepoScan(f.memories)
    THEN [ok |-> TRUE, file |-> f]
  ELSE IF f.documents = "none" \/ f.memories = "none"
    THEN [ok |-> FALSE, file |-> f]
  ELSE [ok |-> TRUE,
        file |-> [documents |-> "current", memories |-> "current", folder |-> FALSE,
                  rows |-> {[src |-> r.src, folder |-> FALSE] :
                              r \in {q \in f.rows : q.src # "repo_scan"}}]]

\* columnExists(database, 'documents', 'folder'): PRAGMA table_info of a
\* missing table has no rows
columnExists(f) == f.documents # "none" /\ f.folder

\* runFolderColumnMigration: ALTER TABLE documents ADD COLUMN folder throws
\* when there is no documents table
runFolderColumnMigration(f) ==
  IF columnExists(f) THEN [ok |-> TRUE, file |-> f]
  ELSE IF f.documents = "none" THEN [ok |-> FALSE, file |-> f]
  ELSE [ok |-> TRUE, file |-> [f EXCEPT !.folder = TRUE]]

\* CREATE TABLE IF NOT EXISTS documents (..., folder TEXT, ...), memories
createTables(f) ==
  [f EXCEPT !.documents = IF @ = "none" THEN "current" ELSE @,
            !.folder = IF f.documents = "none" THEN TRUE ELSE @,
            !.memories = IF @ = "none" THEN "current" ELSE @]

\* initDatabase on a file: the migrations first, then the pragmas and the
\* CREATE TABLE statements
openDatabase(f) ==
  LET a == repoScanMigration(f)
      b == runFolderColumnMigration(a.file)
  IN IF ~a.ok THEN a
     ELSE IF ~b.ok THEN b
     ELSE [ok |-> TRUE, file |-> createTables(b.file)]

MigUnchanged ==
  UNCHANGED <<lockFile, prev, extBusy, fl, dc, procVars, hubVars, proxyVars,
              apiVars, convVars, extVars>>

\* a daemon process starts and calls initDatabase on the file it finds
FirstOpen(f) ==
  /\ mig.st = "unopened"
  /\ LET r == openDatabase(f) IN
       mig' = [st |-> IF r.ok THEN "open" ELSE "failed", file |-> r.file,
               before |-> f, opens |-> 1]
  /\ MigUnchanged

\* the daemon is started again later: initDatabase on the file as it is now
Reopen ==
  /\ mig.st # "unopened"
  /\ mig.opens < MaxOpens
  /\ LET r == openDatabase(mig.file) IN
       mig' = [st |-> IF r.ok THEN "open" ELSE "failed", file |-> r.file,
               before |-> mig.file, opens |-> mig.opens + 1]
  /\ MigUnchanged

MigNext ==
  \/ \E f \in DatabaseFiles : FirstOpen(f)
  \/ Reopen

MigSpec == Init /\ [][MigNext]_vars

(***************************************************************************)
(* The proxy's daemon client (createDaemonClient, connectToDaemon).  Each  *)
(* socket object is created with reconnection: true, so after a transport  *)
(* failure the object reconnects by itself.                                *)
(***************************************************************************)
DcUnchanged ==
  UNCHANGED <<lockFile, prev, extBusy, fl, mig, procVars, hubVars, proxyVars,
              apiVars, convVars, extVars>>

\* socket.on('disconnect', () => { socket = null }) on the objects getSocket
\* received: the shared variable is cleared whichever object it holds
AfterDisconnectEvent(x) == IF x \in dc.handled THEN 0 ELSE dc.socket

\* getSocket when no connected socket is held and no attempt is pending:
\* connecting = connectToDaemon(), which creates a socket object
GetSocketConnect ==
  /\ ~(dc.socket # 0 /\ dc.s[dc.socket] = "connected")
  /\ dc.connecting = 0
  /\ dc.made < MaxSocks
  /\ dc' = [dc EXCEPT !.made = @ + 1, !.connecting = dc.made + 1,
                      !.s[dc.made + 1] = "opening"]
  /\ DcUnchanged

\* 'connect' on the pending attempt: the promise resolves, getSocket stores
\* the socket, registers the disconnect handler and clears connecting
ConnectResolved(x) ==
  /\ dc.connecting = x
  /\ dc.s[x] = "opening"
  /\ dc' = [dc EXCEPT !.s[x] = "connected", !.socket = x, !.connecting = 0,
                      !.handled = @ \cup {x}]
  /\ DcUnchanged

\* 'connect_error' on the pending attempt: the promise rejects and connecting
\* is cleared; the socket object is not closed and goes on retrying
ConnectRejected(x) ==
  /\ dc.connecting = x
  /\ dc.s[x] = "opening"
  /\ dc' = [dc EXCEPT !.s[x] = "reconnecting", !.connecting = 0]
  /\ DcUnchanged

\* the 10 s timeout: socket.disconnect(), reject
ConnectTimeout(x) ==
  /\ dc.connecting = x
  /\ dc.s[x] = "opening"
  /\ dc' = [dc EXCEPT !.s[x] = "closed", !.connecting = 0]
  /\ DcUnchanged

\* the transport of a connected socket fails (daemon restart, ping timeout):
\* 'disconnect' is emitted and the object starts reconnecting
TransportClose(x) ==
  /\ dc.s[x] = "connected"
  /\ dc' = [dc EXCEPT !.s[x] = "reconnecting", !.socket = AfterDisconnectEvent(x)]
  /\ DcUnchanged

\* the daemon disconnects the socket: 'disconnect', no reconnection
ServerDisconnect(x) ==
  /\ dc.s[x] = "connected"
  /\ dc' = [dc EXCEPT !.s[x] = "closed", !.socket = AfterDisconnectEvent(x)]
  /\ DcUnchanged

\* a retrying socket object connects again
Reconnected(x) ==
  /\ dc.s[x] = "reconnecting"
  /\ dc' = [dc EXCEPT !.s[x] = "connected"]
  /\ DcUnchanged

\* reconnectionAttempts are used up
ReconnectFailed(x) ==
  /\ dc.s[x] = "reconnecting"
  /\ dc' = [dc EXCEPT !.s[x] = "closed"]
  /\ DcUnchanged

\* the client's disconnect(): if (socket) { socket.disconnect(); socket = null }
ClientDisconnect ==
  /\ dc.socket # 0
  /\ dc' = [dc EXCEPT !.s[dc.socket] = "closed", !.socket = 0]
  /\ DcUnchanged

DcNext ==
  \/ GetSocketConnect
  \/ ClientDisconnect
  \/ \E x \in Socks :
       \/ ConnectResolved(x)
       \/ ConnectRejected(x)
       \/ ConnectTimeout(x)
       \/ TransportClose(x)
       \/ ServerDisconnect(x)
       \/ Reconnected(x)
       \/ ReconnectFailed(x)

DcSpec == Init /\ [][DcNext]_vars

(***************************************************************************)
(* RAG store: schema migration, upload batches, document deletion.         *)
(***************************************************************************)
\* runRepoScanSchemaMigration on a store whose schema still allows
\* 'repo_scan': with foreign_keys OFF the repo_scan documents are deleted and
\* the documents table is rebuilt; chunks and embeddings are not touched
runRepoScanSchemaMigration(s) ==
  [s EXCEPT !.doc = [d \in DocIds |-> IF s.doc[d].src = "repo_scan" THEN NoDoc
                                       ELSE s.doc[d]]]

\* initDatabase: the file at DB_PATH is opened with what earlier runs, of
\* this or an older version, left in it (every document chunked and embedded)
initDatabase(docs) ==
  /\ ~rag.loaded
  /\ rag' = runRepoScanSchemaMigration(
       [loaded |-> TRUE,
        doc |-> docs,
        chunks |-> {d \in DocIds : docs[d] # NoDoc},
        embs |-> {d \in DocIds : docs[d] # NoDoc},
        next |-> 1 + Cardinality({d \in DocIds : docs[d] # NoDoc})])
  /\ UNCHANGED <<fsVars, procVars, hubVars, proxyVars, apiVars, convVars>>
  /\ UNCHANGED <<cleanupPending, retry, countCast, cfg, cfgOut, up>>

\* DELETE FROM documents WHERE id = ?, with ON DELETE CASCADE on chunks and
\* embeddings (foreign_keys = ON)
deleteDocument(s, ids) ==
  [s EXCEPT !.doc = [d \in DocIds |-> IF d \in ids THEN NoDoc ELSE s.doc[d]],
            !.chunks = @ \ ids,
            !.embs = @ \ ids]

\* mutant: titles are compared as they are
isDuplicateTitleExact(documents, title) ==
  \E d \in DocIds : documents[d] # NoDoc /\ documents[d].title = title

\* isDuplicateTitle: equal after trim().toLowerCase(); a title is a name in
\* one of several spellings (case, surrounding blanks)
isDuplicateTitle(documents, title) ==
  \E d \in DocIds : documents[d] # NoDoc /\ documents[d].title.name = title.name

\* ragUploadFiles up to its loop: the options and the list read once (one
\* batch per run; the store it meets is any store earlier batches left)
UploadStart(ifExists, inputs) ==
  /\ rag.loaded
  /\ up.pc = "idle"
  /\ up' = [pc |-> "run", mode |-> ifExists, inputs |-> inputs, i |-> 1,
            documents |-> rag.doc, processed |-> {}, created |-> {}, cur |-> 0]
  /\ UNCHANGED <<fsVars, procVars, hubVars, proxyVars, apiVars, convVars>>
  /\ UNCHANGED <<cleanupPending, retry, countCast, cfg, cfgOut, rag>>

\* one pass of the loop up to its last await: the duplicate tests, the
\* deletion under replace, reading and chunking the file, createDocument and
\* insertChunks
UploadStep ==
  /\ up.pc = "run"
  /\ LET title == up.inputs[up.i].title
         n == title.name
         hasDuplicate == isDuplicateTitle(up.documents, title)
         matching == {d \in DocIds : up.documents[d] # NoDoc
                                     /\ up.documents[d].title.name = n}
         after == [up EXCEPT !.i = @ + 1,
                             !.pc = IF up.i + 1 > Len(up.inputs) THEN "done" ELSE "run"]
     IN
       IF up.mode # "allow" /\ n \in up.processed
         THEN up' = after /\ rag' = rag
       ELSE IF hasDuplicate /\ up.mode = "skip"
         THEN up' = [after EXCEPT !.processed = @ \cup {n}] /\ rag' = rag
       ELSE
         LET replaced == hasDuplicate /\ up.mode = "replace"
             cleared == IF replaced THEN deleteDocument(rag, matching) ELSE rag
         IN IF ~up.inputs[up.i].ok
              THEN /\ up' = [after EXCEPT !.processed = @ \cup {n}]
                   /\ rag' = cleared
              ELSE /\ rag.next <= MaxDocs
                   /\ up' = [up EXCEPT !.pc = "embed", !.cur = rag.next,
                                       !.processed = IF replaced THEN @ \cup {n} ELSE @,
                                       !.created = @ \cup {<<up.i, rag.next>>}]
                   /\ rag' = [cleared EXCEPT
                                !.doc[rag.next] = [title |-> title, src |-> "upload"],
                                !.chunks = @ \cup {rag.next},
                                !.next = @ + 1]
  /\ UNCHANGED <<fsVars, procVars, hubVars, proxyVars, apiVars, convVars>>
  /\ UNCHANGED <<cleanupPending, retry, countCast, cfg, cfgOut>>

\* embedTexts settles: insertEmbedding (refused by the foreign key when the
\* chunk is gone), or the catch block; then the next pass
EmbedDone(embedOk) ==
  /\ up.pc = "embed"
  /\ rag' = IF embedOk /\ up.cur \in rag.chunks
              THEN [rag EXCEPT !.embs = @ \cup {up.cur}]
              ELSE rag
  /\ up' = [up EXCEPT !.i = @ + 1, !.cur = 0,
                      !.processed = @ \cup {up.inputs[up.i].title.name},
                      !.pc = IF up.i + 1 > Len(up.inputs) THEN "done" ELSE "run"]
  /\ UNCHANGED <<fsVars, procVars, hubVars, proxyVars, apiVars, convVars>>
  /\ UNCHANGED <<cleanupPending, retry, countCast, cfg, cfgOut>>

\* the store opened over an earlier one, and an upload batch
RagNext ==
  LET Inputs == [title : [name : {"a", "b"}, form : {"plain", "upper"}], ok : BOOLEAN]
      Batches == UNION {[1..k -> Inputs] : k \in 1..MaxBatch}
      Rows == [title : [name : {"a", "b"}, form : {"plain"}],
               src : {"upload", "repo_scan"}]
  IN
  \/ /\ ~rag.loaded
     /\ \E docs \in [DocIds -> {NoDoc} \cup Rows] :
          /\ \A d \in DocIds : (d > 1 /\ docs[d] # NoDoc) => docs[d - 1] # NoDoc
          /\ docs[MaxDocs] = NoDoc
          /\ initDatabase(docs)
  \/ /\ rag.loaded /\ up.pc = "idle"
     /\ \E ifExists \in {"skip", "allow", "replace"}, inputs \in Batches :
          UploadStart(ifExists, inputs)
  \/ UploadStep
  \/ \E embedOk \in BOOLEAN : EmbedDone(embedOk)

RagSpec == ConvInit /\ [][RagNext]_vars

(***************************************************************************)
(* Properties.                                                             *)
(***************************************************************************)
Serving == {p \in Procs : pc[p] = "serving"}

\* C1: whatever launches race on the lock file, at most one process at a time
\* has completed start-up and serves clients.
C1_AtMostOneDaemon == Cardinality(Serving) <= 1

\* the lock names a daemon process that is alive
NamesLiveDaemon(file) ==
  file.kind = "lock" /\ file.pid \in Procs /\ ProcessExists(file.pid)

\* the lock names a pid under which nothing runs
NamesDeadPid(file) == file.kind = "lock" /\ ~ProcessExists(file.pid)

FullShutdown == <<"stop", "closeDb", "rmLock", "exit0">>

\* C3: a process that ended after a shutdown trigger stopped accepting
\* connections (if it had a server), then closed the store, then deleted the
\* lock file, then exited with code 0.
C3_ShutdownSequence ==
  \A p \in Procs :
    (pc[p] = "exited" /\ trig[p] # "none") =>
       /\ exitCode[p] = 0
       /\ shutLog[p] \in {FullShutdown, Tail(FullShutdown)}

\* C4: the idle timer is armed only while no client is connected, and it has
\* never fired with a client connected.
C4_IdleOnlyWhenNoClients ==
  \A p \in Procs :
    /\ idleTimer[p] => connectedClients[p] = {}
    /\ firedClients[p] <= 0

\* a daemon serves a client and its timer is not armed
C4_Witness ==
  \E p \in Procs :
    /\ mode[p] = "index"
    /\ pc[p] = "serving"
    /\ connectedClients[p] # {}
    /\ ~idleTimer[p]

\* C5: the idle timer is re-evaluated on every connect and disconnect: a
\* daemon that serves and has no client has its timer armed.
C5_IdleReevaluated ==
  \A p \in Procs :
    (mode[p] = "index" /\ pc[p] = "serving" /\ connectedClients[p] = {}) =>
       idleTimer[p]

\* C6: the lock file is written atomically: at any moment it is absent or
\* holds a complete record.
C6_AtomicLockWrite == lockFile.kind \in {"none", "lock"}

FirstFreePort == CHOOSE q \in DEFAULT_PORT..(DEFAULT_PORT + MaxProbe + 1) :
  /\ PortAvailable(q)
  /\ \A r \in DEFAULT_PORT..(q - 1) : PortInUse(r)

\* C8: port selection returns the first port from 3456 on that binds, and
\* never probes beyond ten consecutive ports.
C8_PortSelection ==
  \A p \in Procs :
    /\ pc[p] = "probe" => port[p] < DEFAULT_PORT + 10
    /\ (mode[p] = "index" /\ pc[p] \in {"acq", "open", "write", "listen"}) =>
         port[p] = FirstFreePort

\* C9: an /api request that does not present the daemon token is answered 401
\* and changes neither the store nor the broadcasts.
C9_UnauthorizedNoEffect ==
  [][(lastReq'.seq # lastReq.seq /\ lastReq'.token # FreshToken(1)) =>
        /\ lastStatus' = 401
        /\ store' = store
        /\ events' = events]_vars

\* C10: every client in the client table presented the daemon token in its
\* handshake.
C10_HandshakeToken ==
  \A c \in Clients : sock[c] = "connected" => hs[c] = FreshToken(peer[c])

\* a handler of the conversation store ran in this step
ConvStep == convVars' # convVars

\* C11: every conversation holds at most 2 x config.maxMessages persisted
\* messages in every state between two handlers.
C11_MessageCap == \A c \in Convs : Len(msgs[c]) <= 2 * maxMessages

C13_ArchiveIdempotent ==
  [][(ConvStep /\ last'.op = "archive" /\ conv[last'.conv].st = "archived") =>
        (~last'.ok /\ conv' = conv)]_vars

\* C14: a consult that started on a conversation whose message cap was reached
\* ends with the limit error and leaves the conversation archived with
\* endReason timeout.
C14_LimitExceeded ==
  [][(consult.pc = "rag" /\ consult' # consult
        /\ consult.snap >= 2 * maxMessages) =>
        /\ last'.err = "limit"
        /\ conv'[consult.conv].st = "archived"
        /\ conv'[consult.conv].endReason = "timeout"]_vars

\* positions of the events of one type in a broadcast list
EventsOf(list, type) == {i \in 1..Len(list) : list[i].type = type}

\* conversations that gained a message in this step
Committed == {c \in Convs : Len(msgs'[c]) = Len(msgs[c]) + 1}

\* C15: a handler that appended a message broadcasts exactly one
\* conversation:message, for that conversation, to every socket connected at
\* that moment; a handler whose append failed broadcasts none.
C15_OneBroadcastPerAppend ==
  [][ConvStep =>
       /\ Cardinality(EventsOf(emits', "conversation:message")) = Cardinality(Committed)
       /\ \A i \in EventsOf(emits', "conversation:message") :
            /\ emits'[i].conv \in Committed
            /\ emits'[i].to = connectedClients[1]]_vars

\* the consult path appended the assistant's answer and both clients got it
C15_Witness ==
  /\ last.op = "consult" /\ last.ok
  /\ emits # <<>>
  /\ emits[1].type = "conversation:message"
  /\ emits[1].to = Clients

\* C16: when conversation:message is broadcast the message is already in the
\* store, stamped with the current time, and updatedAt has been bumped.
C16_BroadcastAfterCommit ==
  [][ConvStep =>
       \A i \in EventsOf(emits', "conversation:message") :
         LET c == emits'[i].conv IN
           /\ emits'[i].ord <= Len(msgs'[c])
           /\ msgs'[c][emits'[i].ord].at = now
           /\ conv'[c].updatedAt = now]_vars

\* a message appended after the clock advanced, its broadcast just emitted
C16_Witness ==
  \E c \in Convs :
    /\ last.op = "addMessage" /\ last.ok /\ last.conv = c
    /\ now > 1
    /\ emits # <<>>
    /\ msgs[c] # <<>>
    /\ conv[c].updatedAt = now

\* C17: a handler broadcasts conversation:created / ended / deleted exactly
\* for the rows it created, archived or deleted; a mutation that changed no
\* row broadcasts nothing.
C17_MutationEvents ==
  [][ConvStep =>
       /\ Cardinality(EventsOf(emits', "conversation:created")) =
            Cardinality({c \in Convs : ~RowExists(conv[c]) /\ RowExists(conv'[c])})
       /\ Cardinality(EventsOf(emits', "conversation:deleted")) =
            Cardinality({c \in Convs : RowExists(conv[c]) /\ ~RowExists(conv'[c])})
       /\ \A i \in EventsOf(emits', "conversation:ended") :
            /\ RowExists(conv[emits'[i].conv])
            /\ conv'[emits'[i].conv].st = "archived"
       /\ (last'.op = "archive" /\ last'.ok) =>
            Cardinality(EventsOf(emits', "conversation:ended")) = 1]_vars

\* C18: get(id) returns the messages of a conversation in the order in which
\* they were committed.
C18_CommitOrder == \A c \in Convs : getConversation(c) = msgs[c]

\* C19: the persisted messages of a conversation alternate user, assistant,
\* user, ... from the first one; in particular none has role system.
C19_AlternatingRoles ==
  \A c \in Convs : \A i \in 1..Len(msgs[c]) :
    msgs[c][i].role = IF i % 2 = 1 THEN "user" ELSE "assistant"

\* C20: a sweep archives (as timeout, at the current time) every active
\* conversation whose updatedAt is more than five minutes old and leaves every
\* other row as it was.
C20_StaleSweep ==
  [][(ConvStep /\ last'.op = "sweep") =>
       \A c \in Convs :
         IF conv[c].st = "active" /\ now - conv[c].updatedAt > STALE_TIMEOUT_MINUTES
           THEN /\ conv'[c].st = "archived"
                /\ conv'[c].endReason = "timeout"
                /\ conv'[c].endedAt = now
           ELSE conv'[c] = conv[c]]_vars

\* a sweep found a stale conversation, archived it and announced it
C20_Witness ==
  /\ last.op = "sweep" /\ last.ok
  /\ emits # <<>>
  /\ \E c \in Convs :
       /\ conv[c].st = "archived"
       /\ conv[c].updatedAt = now
       /\ now > STALE_TIMEOUT_MINUTES + 1

\* the conversations a step moves from active to archived with reason timeout
TimedOutByStep ==
  {c \in Convs : conv[c].st = "active" /\ conv'[c].st = "archived"
                   /\ conv'[c].endReason = "timeout"}

\* C21: a sweep, periodic or at startup, emits conversation:ended with reason
\* timeout for exactly the conversations it archived, no more and no fewer
C21_SweepAnnounces ==
  [][(ConvStep /\ last'.op \in {"sweep", "startup"}) =>
       {emits'[i].conv : i \in {j \in 1..Len(emits') :
                                  emits'[j].type = "conversation:ended"}}
         = TimedOutByStep]_vars
\* the errors the claim lists as retryable
ListedRetryable(e) ==
  \/ statusOf(e) \in {429, 500, 501, 502, 503, 504, 599}
  \/ e.timeoutMsg
  \/ e.code = "ETIMEDOUT"

\* C22 as stated: a failed call is followed by another attempt only when its
\* status is one of 429, 500, 501, 502, 503, 504, 599, or its message contains
\* "timeout", or its code is ETIMEDOUT
C22_RetryOnlyListed ==
  [][(retry.pc = "calling" /\ retry'.pc = "waiting") => ListedRetryable(retry'.err)]_vars

\* C22 amended: a failed call is followed by another attempt exactly when
\* retries are left and its status is 429 or any 5xx, or its message contains
\* "timeout", or its code is ETIMEDOUT; any other error is rethrown at once
C22_RetryOnly5xx ==
  [][(retry.pc = "calling" /\ retry'.pc \in {"waiting", "thrown"}) =>
       (retry'.pc = "waiting" <=>
          /\ retry.attempt < retry.maxRetries
          /\ \/ statusOf(retry'.err) = 429
             \/ statusOf(retry'.err) \in 500..599
             \/ retry'.err.timeoutMsg
             \/ retry'.err.code = "ETIMEDOUT")]_vars

C22_Witness ==
  /\ retry.pc = "waiting"
  /\ statusOf(retry.err) = 505
  /\ ~retry.err.timeoutMsg
  /\ retry.err.code = "none"

\* C23: the loop calls the operation at most maxRetries + 1 times (3 by
\* default), waits baseDelay * 2^attempt before attempt + 1 (1000 then 2000 by
\* default), returns at the first success, rethrows the error of the last
\* call, and every call of withRetry ends
C23_RetryTerminates ==
  /\ [](retry.calls <= retry.maxRetries + 1)
  /\ [](\A i \in 1..Len(retry.waits) :
          retry.waits[i] = retry.baseDelay * 2^(i - 1))
  /\ [](retry.pc = "returned" => retry.errs = retry.calls - 1)
  /\ [](retry.pc = "thrown" =>
          /\ retry.errs = retry.calls
          /\ retryCondition(retry.err) => retry.calls = retry.maxRetries + 1)
  /\ []((retry.pc = "thrown" /\ retry.maxRetries = DefaultMaxRetries
          /\ retry.baseDelay = DefaultBaseDelay /\ retry.calls = 3)
         => retry.waits = <<1000, 2000>>)
  /\ (retry.pc = "calling") ~> (retry.pc \in {"returned", "thrown"})

C23_Witness ==
  /\ retry.pc = "thrown"
  /\ retry.maxRetries = DefaultMaxRetries
  /\ retry.calls = 3
  /\ retry.waits = <<1000, 2000>>
\* C24: every connect and every disconnect is followed at once by a
\* clients:count broadcast whose value is the number of clients connected to
\* the daemon at that moment
C24_ClientsCount ==
  [][\A c \in Clients :
       /\ (sock[c] # "connected" /\ sock'[c] = "connected") =>
            LET p == peer'[c] IN
              /\ countCast'[p].seq # countCast[p].seq
              /\ countCast'[p].n = Cardinality({d \in Clients : sock'[d] = "connected"
                                                               /\ peer'[d] = p})
       /\ (sock[c] = "connected" /\ sock'[c] # "connected" /\ pc'[peer[c]] = "serving") =>
            LET p == peer[c] IN
              /\ countCast'[p].seq # countCast[p].seq
              /\ countCast'[p].n = Cardinality({d \in Clients : sock'[d] = "connected"
                                                               /\ peer'[d] = p})]_vars

\* a client has left while another stays connected, and the count was broadcast
C24_Witness ==
  \E c, d \in Clients :
    /\ sock[c] = "closed" /\ hs[c] = NoToken
    /\ sock[d] = "connected"
    /\ countCast[peer[d]] = [n |-> 1, seq |-> 1]
\* C25: the stored config has only the enumerated keys, maxMessages in 1..50
\* and requestTimeout in 30000..600000, whichever interface wrote it
C25_ConfigValidated ==
  /\ ~cfg.other
  /\ cfg.maxMessages \in {Absent} \cup (1..50)
  /\ cfg.requestTimeout \in {Absent} \cup (30000..600000)

\* C26: a config write that reached the store is announced by config:updated
\* carrying the stored config; a rejected or failed write announces nothing
C26_ConfigBroadcast ==
  /\ cfgOut.committed => (cfgOut.cast /\ cfgOut.payload = getConfig(cfg))
  /\ cfgOut.replied \in {"rejected", "failed"} => ~cfgOut.cast

\* C27: no config:updated broadcast carries a provider API key
C27_NoKeyInBroadcast == cfgOut.cast => cfgOut.payload.apiKey = ""
\* C28: every chunk's document exists and every embedding's chunk exists, in
\* every state of the store, after deletions and after schema migrations
C28_ReferentialIntegrity ==
  /\ \A c \in rag.chunks : rag.doc[c] # NoDoc
  /\ \A e \in rag.embs : e \in rag.chunks

\* the inputs of the running batch that were inserted so far
CreatedInputs == {e[1] : e \in up.created}

C30_SamePathEffects ==
  [][(last'.op \in {"consult", "restConsult"} /\ last'.ok)
       => \E c \in Convs :
            /\ Len(msgs'[c]) = Len(msgs[c]) + 1
            /\ msgs'[c][Len(msgs'[c])].role = "assistant"
            /\ emits' = <<Event("conversation:message", c, Len(msgs'[c]))>>]_vars

\* C31: a client's disconnection while the provider call is in flight does
\* not cancel the call: the disconnection leaves the consultation and the
\* messages as they are, the handler still completes with no client
\* connected, and a reply that arrives is appended to the conversation and
\* broadcast
C31_DisconnectKeepsCall ==
  /\ [][(connectedClients'[1] # connectedClients[1]) =>
          (consult' = consult /\ msgs' = msgs)]_vars
  /\ [][(consult.pc = "provider" /\ consult'.pc = "idle" /\ last'.ok) =>
          LET c == consult.conv IN
            /\ msgs'[c] = Append(msgs[c], Message("assistant", now))
            /\ emits' = <<Event("conversation:message", c, Len(msgs'[c]))>>]_vars
  /\ (consult.pc # "idle" /\ connectedClients[1] = {}) ~> (consult.pc = "idle")

C31_Witness ==
  /\ connectedClients[1] = {}
  /\ last.op = "consult" /\ last.ok
  /\ Len(msgs[1]) = 2
  /\ msgs[1][2].role = "assistant"
  /\ emits = <<Event("conversation:message", 1, 2)>>

\* C32: every request/response operation of the hub answers on its
\* acknowledgement callback; a failing operation answers with a failure
\* reply, emits no error event and leaves the hub and the daemon running
C32_AckAndHealthy ==
  [][/\ last'.err # "unanswered"
     /\ \A i \in 1..Len(emits') : emits'[i].type # "error"
     /\ HubUp => HubUp']_vars

\* C33: a FileLock is held by at most one holder at a time, also when two
\* acquires race
C33_OneHolder ==
  Cardinality({x \in Holders : fl.h[x].pc = "held"}) <= 1

\* C34: opening the store is safe to repeat: it succeeds from an empty
\* database, from a legacy-schema database and from an already-migrated one,
\* and running the migrations again on a database that was opened before
\* changes neither schema nor rows
C34_OpenRepeatable ==
  /\ mig.st # "failed"
  /\ mig.opens >= 2 => mig.file = mig.before

\* C35: a daemon process deletes the lock file only when the file records its
\* own pid: whatever step of a process unlinks the lock (shutdown, failed
\* start-up, stale-lock removal), the lock is that process's own or the lock
\* of no live daemon
C35_RemovesOnlyOwnLock ==
  [][\A p \in Procs :
       (/\ pc[p] \in {"check_rm", "acq_rm", "fail_rm", "sd_rm"}
        /\ pc'[p] # pc[p]
        /\ lockFile.kind = "lock"
        /\ lockFile' = NoFile)
       => (lockFile.pid = p \/ ~isProcessRunning(lockFile.pid))]_vars

\* C36: once a conversation is archived its message list never changes: no
\* addMessage and no consult, in flight or new, appends to it
C36_ArchivedFrozen ==
  [][\A c \in Convs :
       (conv[c].st = "archived" /\ conv'[c].st = "archived") => msgs'[c] = msgs[c]]_vars

\* C37: when a consult request fails (provider error, failed retrieval, cap
\* reached) the conversation's persisted messages are those it had before
\* the request: no user turn is left without its assistant reply
C37_FailedConsultNoTrace ==
  [][(consult.pc # "idle" /\ consult'.pc = "idle" /\ ~last'.ok) =>
       LET c == consult.conv IN
         msgs'[c] = SubSeq(msgs[c], 1, consult.snap)]_vars

\* C38: a proxy has at most one daemon connection open or being opened at
\* any time
C38_OneConnection ==
  Cardinality({x \in Socks : dc.s[x] \in {"opening", "connected", "reconnecting"}}) <= 1

\* C39: the lock is never visible before the daemon can accept the proxy's
\* connection: at the moment the proxy resolves the port from the lock of
\* the daemon it spawned, that daemon is listening
C39_LockMeansListening ==
  [][(ppc # "resolved" /\ ppc' = "resolved" /\ lockFile.pid \in Procs)
       => listening[lockFile.pid]]_vars

\* C40: a document upload is all-or-nothing: once an input has been dealt
\* with, the document created for it is stored with its chunks and an
\* embedding for each of them, or nothing of it is stored
C40_UploadAllOrNothing ==
  \A e \in up.created :
    (up.pc \in {"run", "done"} \/ e[2] # up.cur) =>
      \/ (rag.doc[e[2]] # NoDoc /\ e[2] \in rag.chunks /\ e[2] \in rag.embs)
      \/ (rag.doc[e[2]] = NoDoc /\ e[2] \notin rag.chunks /\ e[2] \notin rag.embs)

====
